---------------------------- MODULE Spec2Model ----------------------------
(***************************************************************************)
(* Model of the incremental analytics index of the referral dashboard      *)
(* (lib/analytics/index.ts): the ingestion API, the query engine and the   *)
(* snapshot codec; and of the propagation analyzer of the referral detail  *)
(* page (pages/ReferralDetailPage.tsx).                                    *)
(*                                                                         *)
(* Conventions.                                                            *)
(*   - A JavaScript Map is a sequence of <<key, value>> pairs in insertion *)
(*     order (Map iteration order), without duplicate keys.                *)
(*   - UserAgg objects are shared by reference between referral.users,     *)
(*     global.users and usersByWallet: they live in `heap` and the maps    *)
(*     hold references (indices into heap).                                *)
(*   - An optional number (x?: number) is <<>> when undefined, <<v>> else. *)
(*   - Day keys ('yyyy-MM-dd') are day numbers; their numeric order is the *)
(*     lexicographic order of the strings.  'Invalid' sorts after every    *)
(*     day key ('I' > '9') and is the number InvalidKey.                   *)
(*   - USD amounts are exact integers.                                     *)
(*   - Timestamps (createdAt, signupAt) are counted in hours since the     *)
(*     epoch; 0 is what the parsers give for a date that does not parse.   *)
(***************************************************************************)
EXTENDS Integers, Sequences, FiniteSets, TLC

VARIABLES
    index,      \* the AnalyticsIndex under construction
    heap,       \* UserAgg objects, addressed by reference
    restored,   \* <<>> or <<deserializeIndex(serializeIndex(index))>>
    last,       \* the last call and what it returned
    dropped,    \* history: per code, the transactions sliced off topRevenueTxs
    attributed, \* history: per code, how many transactions were attributed to it
    nOps,       \* number of ingestion calls so far
    nQueries,   \* number of query calls so far
    analysis,   \* the propagation analyzer of the referral detail page
    customerCalls, \* history: the addCustomer calls made, counted by kind
    parse,      \* a parseTransactionsNdjson call: its locals and what it delivered
    build,      \* a buildDashboard call of the import page, and the snapshot store
    history,    \* history: the ingestion calls of SpecHistory, in order
    graph       \* a buildPropagationGraph call: its locals, and the inputs chosen

vars ==
    <<index, heap, restored, last, dropped, attributed, nOps, nQueries, analysis, customerCalls,
      parse, build, history, graph>>

(* What the ingestion API, the codec and the query engine never touch *)
others == <<analysis, parse, build, history, graph>>

-----------------------------------------------------------------------------
(* Bounds of the model *)

MaxOps == 4

(* Number of ingestion calls in SpecRetention *)
MaxRetentionOps == 5

(* Numbers of ingestion calls and of query calls in SpecQuery *)
MaxQueryIngestOps == 3
MaxQueries == 2

(* Number of addReferralCodeMeta calls in SpecPropagation *)
MaxPropagationMetas == 3

(* AnalyticsOptions.maxStoredTxs as passed to createAnalyticsIndex *)
MaxStoredTxs == 2

(* Program constants.  Timestamps are counted in hours, not milliseconds, so *)
(* that they fit the model checker's integers: DAY_MS is one day in hours.  *)
DAY_MS == 24
InvalidKey == 999999

-----------------------------------------------------------------------------
(* JavaScript Map, as an insertion-ordered list of entries *)

(* TRUE of every value.  A fold over a long file tests it on what it has    *)
(* accumulated, so that each step is evaluated before the next is entered.  *)
Evaluated(v) == v = v

MapHas(m, k) == \E i \in 1..Len(m) : m[i][1] = k

MapIdx(m, k) == CHOOSE i \in 1..Len(m) : m[i][1] = k

MapGet(m, k, default) == IF MapHas(m, k) THEN m[MapIdx(m, k)][2] ELSE default

MapSet(m, k, v) ==
    IF MapHas(m, k) THEN [m EXCEPT ![MapIdx(m, k)] = <<k, v>>]
    ELSE Append(m, <<k, v>>)

MapKeys(m) == {m[i][1] : i \in 1..Len(m)}

MapValues(m) == [i \in 1..Len(m) |-> m[i][2]]

RECURSIVE MapFromEntries(_, _)
(* new Map(entries), or entries.forEach(([k, v]) => map.set(k, v)) *)
MapFromEntries(m, entries) ==
    IF entries = <<>> THEN m
    ELSE MapFromEntries(MapSet(m, Head(entries)[1], Head(entries)[2]), Tail(entries))

RECURSIVE SumSeq(_)
SumSeq(s) == IF s = <<>> THEN 0 ELSE Head(s) + SumSeq(Tail(s))

-----------------------------------------------------------------------------
(* Small conversions *)

Some(v) == <<v>>
None == <<>>

(* String.prototype.trim on the strings the model uses *)
Trim(s) ==
    CASE s = " " -> ""
      [] s = " X" -> "X"
      [] OTHER -> s

(* toDateKey: the day of a finite timestamp *)
toDateKey(timestamp) == timestamp \div DAY_MS

-----------------------------------------------------------------------------
(* Construction *)

createReferralIndex(code) ==
    [ code |-> code,
      signupsByDate |-> <<>>,
      kycByDate |-> <<>>,
      firstRevenueTxByDate |-> <<>>,
      daily |-> <<>>,
      feeByCategory |-> <<>>,
      feeByCategoryDaily |-> <<>>,
      volumeByCategory |-> <<>>,
      volumeByCategoryDaily |-> <<>>,
      tokenVolumeBySymbol |-> <<>>,
      tokenVolumeBySymbolDaily |-> <<>>,
      tokenCategoryBySymbolDaily |-> <<>>,
      swapFlowByPair |-> <<>>,
      swapFlowByPairDaily |-> <<>>,
      users |-> <<>>,
      topRevenueTxs |-> <<>>,
      feeUsdTotal |-> 0,
      volumeUsdTotal |-> 0,
      revenueTxCount |-> 0 ]

createAnalyticsIndex(options) ==
    [ customersByWallet |-> <<>>,
      customersById |-> <<>>,
      usersByWallet |-> <<>>,
      referrals |-> <<>>,
      referralCodes |-> <<>>,
      ownerUsageDaily |-> <<>>,
      customerUsageDaily |-> <<>>,
      global |-> createReferralIndex("all"),
      totals |-> [ customers |-> 0, kycUsers |-> 0, txLines |-> 0,
                   revenueTxCount |-> 0, unattributedTxCount |-> 0 ],
      options |-> options ]

(* getReferral: the key under which a code's aggregate is kept *)
ReferralKey(code) == IF Trim(code) = "" THEN "Unassigned" ELSE Trim(code)

(* getReferral: fetches the aggregate of a code, creating it when absent.   *)
(* Returns the index after the call; the aggregate is at ReferralKey(code). *)
getReferral(ix, code) ==
    IF MapHas(ix.referrals, ReferralKey(code)) THEN ix
    ELSE [ix EXCEPT !.referrals =
              MapSet(@, ReferralKey(code), createReferralIndex(ReferralKey(code)))]

Referral(ix, code) == MapGet(ix.referrals, ReferralKey(code), createReferralIndex(ReferralKey(code)))

incrementMap(map, key, amount) == MapSet(map, key, MapGet(map, key, 0) + amount)

SetReferral(ix, key, r) == [ix EXCEPT !.referrals = MapSet(@, key, r)]

-----------------------------------------------------------------------------
(* Aggregation buckets: ensureX(...) followed by the += on its fields *)

ZeroDaily(date) == [date |-> date, feeUsd |-> 0, volumeUsd |-> 0, revenueTxCount |-> 0]
ZeroFee == [feeUsd |-> 0, revenueTxCount |-> 0]
ZeroVolume == [volumeUsd |-> 0, revenueTxCount |-> 0]
ZeroToken == [volumeUsd |-> 0, txCount |-> 0]

AddDaily(d, feeUsd, volumeUsd) ==
    [d EXCEPT !.feeUsd = @ + feeUsd, !.volumeUsd = @ + volumeUsd, !.revenueTxCount = @ + 1]

AddFee(a, feeUsd) == [a EXCEPT !.feeUsd = @ + feeUsd, !.revenueTxCount = @ + 1]

AddVolume(a, volumeUsd) == [a EXCEPT !.volumeUsd = @ + volumeUsd, !.revenueTxCount = @ + 1]

AddToken(a, volumeUsd) == [a EXCEPT !.volumeUsd = @ + volumeUsd, !.txCount = @ + 1]

(* Mutant of bumpDaily: the bucket of the day is overwritten, not added to *)
bumpDaily_Overwrite(map, date, feeUsd, volumeUsd) ==
    MapSet(map, date, AddDaily(ZeroDaily(date), feeUsd, volumeUsd))

(* ensureDaily + update, on a Map<date, DailyAgg> *)
bumpDaily(map, date, feeUsd, volumeUsd) ==
    MapSet(map, date, AddDaily(MapGet(map, date, ZeroDaily(date)), feeUsd, volumeUsd))

(* ensureFeeCategoryDaily / ensureVolumeCategoryDaily / ensureTokenVolumeDaily /  *)
(* ensureSwapFlowDaily: the inner map is fetched or created, the bucket at `date` *)
(* is fetched or created, and the inner map is stored back under `key`.           *)
NestedGet(map, key, date, zero) == MapGet(MapGet(map, key, <<>>), date, zero)

(* Mutant of NestedSet: a new inner map replaces the one stored under `key` *)
NestedSet_Replace(map, key, date, v) == MapSet(map, key, MapSet(<<>>, date, v))

NestedSet(map, key, date, v) == MapSet(map, key, MapSet(MapGet(map, key, <<>>), date, v))

(* ensureTokenCategoryDaily + update *)
bumpTokenCategoryDaily(map, symbol, date, category, volumeUsd) ==
    LET tokenMap == MapGet(map, symbol, <<>>)
        dateMap == MapGet(tokenMap, date, <<>>)
        agg == AddToken(MapGet(dateMap, category, ZeroToken), volumeUsd)
    IN  MapSet(map, symbol, MapSet(tokenMap, date, MapSet(dateMap, category, agg)))

(* addRevenueTransaction, the daily and per-category buckets of one aggregate *)
applyBuckets(r, tx, dateKey, category) ==
    [r EXCEPT
       !.daily = bumpDaily(@, dateKey, tx.feeUsd, tx.volumeUsd),
       !.feeByCategory = MapSet(@, category, AddFee(MapGet(@, category, ZeroFee), tx.feeUsd)),
       !.feeByCategoryDaily =
           NestedSet(@, category, dateKey, AddFee(NestedGet(@, category, dateKey, ZeroFee), tx.feeUsd)),
       !.volumeByCategory =
           MapSet(@, category, AddVolume(MapGet(@, category, ZeroVolume), tx.volumeUsd)),
       !.volumeByCategoryDaily =
           NestedSet(@, category, dateKey,
                     AddVolume(NestedGet(@, category, dateKey, ZeroVolume), tx.volumeUsd))]

(* addRevenueTransaction, one token of tx.tokens on one aggregate *)
applyToken(r, token, dateKey, category) ==
    IF token.symbol = "" \/ token.volumeUsd = 0 THEN r
    ELSE [r EXCEPT
            !.tokenVolumeBySymbol =
                MapSet(@, token.symbol, AddToken(MapGet(@, token.symbol, ZeroToken), token.volumeUsd)),
            !.tokenVolumeBySymbolDaily =
                NestedSet(@, token.symbol, dateKey,
                          AddToken(NestedGet(@, token.symbol, dateKey, ZeroToken), token.volumeUsd)),
            !.tokenCategoryBySymbolDaily =
                bumpTokenCategoryDaily(@, token.symbol, dateKey, category, token.volumeUsd)]

RECURSIVE applyTokens(_, _, _, _)
(* tx.tokens.forEach(...) on one aggregate *)
applyTokens(r, tokens, dateKey, category) ==
    IF tokens = <<>> THEN r
    ELSE applyTokens(applyToken(r, Head(tokens), dateKey, category), Tail(tokens), dateKey, category)

(* `${fromSymbol}→${toSymbol}`, kept as the pair that split('→') gives back *)
PairKey(fromSymbol, toSymbol) == <<fromSymbol, toSymbol>>

(* addRevenueTransaction, the swap-pair buckets of one aggregate *)
applySwapFlow(r, tx, dateKey) ==
    IF tx.swapFlow = None THEN r
    ELSE LET sf == tx.swapFlow[1] IN
         IF sf.fromSymbol = "" \/ sf.toSymbol = "" \/ ~(sf.volumeUsd > 0) THEN r
         ELSE LET pairKey == PairKey(sf.fromSymbol, sf.toSymbol) IN
              [r EXCEPT
                 !.swapFlowByPair =
                     MapSet(@, pairKey, AddToken(MapGet(@, pairKey, ZeroToken), sf.volumeUsd)),
                 !.swapFlowByPairDaily =
                     NestedSet(@, pairKey, dateKey,
                               AddToken(NestedGet(@, pairKey, dateKey, ZeroToken), sf.volumeUsd))]

(* Mutant of applyTotals: the transaction is not counted *)
applyTotals_NoCount(r, tx) ==
    [r EXCEPT !.feeUsdTotal = @ + tx.feeUsd, !.volumeUsdTotal = @ + tx.volumeUsd]

(* addRevenueTransaction, the running totals of one aggregate *)
applyTotals(r, tx) ==
    [r EXCEPT !.feeUsdTotal = @ + tx.feeUsd,
              !.volumeUsdTotal = @ + tx.volumeUsd,
              !.revenueTxCount = @ + 1]

-----------------------------------------------------------------------------
(* Retention of raw transactions *)

RECURSIVE InsertDesc(_, _)
(* Places tx after every element whose createdAt is >= its own *)
InsertDesc(sorted, tx) ==
    IF sorted = <<>> THEN <<tx>>
    ELSE IF Head(sorted).createdAt >= tx.createdAt
         THEN <<Head(sorted)>> \o InsertDesc(Tail(sorted), tx)
         ELSE <<tx>> \o sorted

RECURSIVE SortDesc(_)
(* Array.prototype.sort((a, b) => b.createdAt - a.createdAt): stable, newest first *)
SortDesc(txs) ==
    IF txs = <<>> THEN <<>>
    ELSE InsertDesc(SortDesc(SubSeq(txs, 1, Len(txs) - 1)), txs[Len(txs)])

(* Array.prototype.slice(0, n) for n >= 0 *)
Slice0(s, n) == SubSeq(s, 1, IF n < Len(s) THEN n ELSE Len(s))

(* Mutant of maybeStoreTx: the length is tested before the push *)
maybeStoreTx_CheckBeforePush(topRevenueTxs, tx, options) ==
    IF options.keepFullTx THEN Append(topRevenueTxs, tx)
    ELSE IF Len(topRevenueTxs) > options.maxStoredTxs
         THEN Append(Slice0(SortDesc(topRevenueTxs), options.maxStoredTxs), tx)
         ELSE Append(topRevenueTxs, tx)

(* Mutant of maybeStoreTx: the slice is taken without sorting first *)
maybeStoreTx_NoSort(topRevenueTxs, tx, options) ==
    LET pushed == Append(topRevenueTxs, tx) IN
    IF options.keepFullTx THEN pushed
    ELSE IF Len(pushed) > options.maxStoredTxs
         THEN Slice0(pushed, options.maxStoredTxs)
         ELSE pushed

(* maybeStoreTx: the list after the call *)
maybeStoreTx(topRevenueTxs, tx, options) ==
    LET pushed == Append(topRevenueTxs, tx) IN
    IF options.keepFullTx THEN pushed
    ELSE IF Len(pushed) > options.maxStoredTxs
         THEN Slice0(SortDesc(pushed), options.maxStoredTxs)
         ELSE pushed

RECURSIVE RemoveOne(_, _)
(* s without the first occurrence of x *)
RemoveOne(s, x) ==
    IF s = <<>> THEN <<>>
    ELSE IF Head(s) = x THEN Tail(s) ELSE <<Head(s)>> \o RemoveOne(Tail(s), x)

RECURSIVE RemoveAll(_, _)
(* History only: the elements of `before` that `kept` no longer holds *)
RemoveAll(before, kept) ==
    IF kept = <<>> THEN before ELSE RemoveAll(RemoveOne(before, Head(kept)), Tail(kept))

-----------------------------------------------------------------------------
(* Ingestion API.  Each operator gives the index and the heap after the call. *)

NewUserAgg(customer) ==
    [ wallet |-> customer.smartWallet,
      referral |-> customer.referral,
      customerId |-> customer.id,
      signupAt |-> customer.signupAt,
      signupDate |-> customer.signupDate,
      kyc |-> customer.notusId # "",
      txCount |-> 0,
      revenueTxCount |-> 0,
      feeUsd |-> 0,
      volumeUsd |-> 0,
      firstRevenueTxAt |-> None,
      lastRevenueTxAt |-> None,
      retainedWithin30d |-> FALSE,
      timeToFirstTxMs |-> None ]

(* Mutant of applySignup: the 'Invalid' signup date is bucketed like a day *)
applySignup_NoInvalidCheck(r, customer) ==
    [r EXCEPT
       !.signupsByDate = incrementMap(@, customer.signupDate, 1),
       !.kycByDate = IF customer.notusId # ""
                     THEN incrementMap(@, customer.signupDate, 1) ELSE @]

(* addCustomer, the signup buckets of one aggregate *)
(* Mutant of applySignup: only customers with a notusId count as signups *)
applySignup_KycOnly(r, customer) ==
    IF customer.signupDate = InvalidKey \/ customer.notusId = "" THEN r
    ELSE [r EXCEPT
            !.signupsByDate = incrementMap(@, customer.signupDate, 1),
            !.kycByDate = incrementMap(@, customer.signupDate, 1)]

applySignup(r, customer) ==
    IF customer.signupDate = InvalidKey THEN r
    ELSE [r EXCEPT
            !.signupsByDate = incrementMap(@, customer.signupDate, 1),
            !.kycByDate = IF customer.notusId # ""
                          THEN incrementMap(@, customer.signupDate, 1) ELSE @]

addCustomer(ix, hp, customer) ==
    LET ix1 == getReferral(ix, customer.referral)
        key == ReferralKey(customer.referral)
        ref == Len(hp) + 1
        referral == MapGet(ix1.referrals, key, createReferralIndex(key))
        referral2 == applySignup([referral EXCEPT !.users = MapSet(@, customer.smartWallet, ref)],
                                 customer)
        global2 == applySignup([ix1.global EXCEPT !.users = MapSet(@, customer.smartWallet, ref)],
                               customer)
    IN  [ index |->
            [ SetReferral(ix1, key, referral2) EXCEPT
                !.customersByWallet = MapSet(@, customer.smartWallet, customer),
                !.customersById = MapSet(@, customer.id, customer),
                !.usersByWallet = MapSet(@, customer.smartWallet, ref),
                !.global = global2,
                !.totals.kycUsers = IF customer.notusId # "" THEN @ + 1 ELSE @,
                !.totals.customers = @ + 1 ],
          heap |-> Append(hp, NewUserAgg(customer)) ]

addReferralCodeMeta(ix, meta) ==
    IF Trim(meta.code) = "" THEN ix
    ELSE [ix EXCEPT !.referralCodes = MapSet(@, Trim(meta.code), [meta EXCEPT !.code = Trim(meta.code)])]

addOwnerUsageDaily(ix, ownerId, dateKey, feeUsd, volumeUsd) ==
    IF ownerId = "" THEN ix
    ELSE LET dailyMap == MapGet(ix.ownerUsageDaily, ownerId, <<>>)
             updated ==
                 IF MapHas(dailyMap, dateKey)
                 THEN MapSet(dailyMap, dateKey,
                             AddDaily(MapGet(dailyMap, dateKey, ZeroDaily(dateKey)), feeUsd, volumeUsd))
                 ELSE MapSet(dailyMap, dateKey,
                             [date |-> dateKey, feeUsd |-> feeUsd, volumeUsd |-> volumeUsd,
                              revenueTxCount |-> 1])
         IN  [ix EXCEPT !.ownerUsageDaily = MapSet(@, ownerId, updated)]

(* !x for an optional number: undefined or 0 *)
Falsy(opt) == opt = None \/ opt[1] = 0

(* addRevenueTransaction, the update of the wallet's UserAgg *)
(* Mutant of updateUserAgg: the flag is computed again at every transaction *)
updateUserAgg_Recompute(userAgg, tx) ==
    LET counted == [userAgg EXCEPT
                      !.txCount = @ + 1,
                      !.revenueTxCount = @ + 1,
                      !.feeUsd = @ + tx.feeUsd,
                      !.volumeUsd = @ + tx.volumeUsd,
                      !.lastRevenueTxAt = Some(tx.createdAt)]
    IN  IF Falsy(userAgg.firstRevenueTxAt)
        THEN [counted EXCEPT
                !.firstRevenueTxAt = Some(tx.createdAt),
                !.timeToFirstTxMs = IF userAgg.signupAt # 0
                                    THEN Some(tx.createdAt - userAgg.signupAt) ELSE None]
        ELSE [counted EXCEPT
                !.retainedWithin30d = tx.createdAt - userAgg.firstRevenueTxAt[1] <= 30 * DAY_MS]

(* Mutant of updateUserAgg: every transaction after the first one retains *)
updateUserAgg_NoWindow(userAgg, tx) ==
    LET counted == [userAgg EXCEPT
                      !.txCount = @ + 1,
                      !.revenueTxCount = @ + 1,
                      !.feeUsd = @ + tx.feeUsd,
                      !.volumeUsd = @ + tx.volumeUsd,
                      !.lastRevenueTxAt = Some(tx.createdAt)]
    IN  IF Falsy(userAgg.firstRevenueTxAt)
        THEN [counted EXCEPT
                !.firstRevenueTxAt = Some(tx.createdAt),
                !.timeToFirstTxMs = IF userAgg.signupAt # 0
                                    THEN Some(tx.createdAt - userAgg.signupAt) ELSE None]
        ELSE [counted EXCEPT !.retainedWithin30d = TRUE]

updateUserAgg(userAgg, tx) ==
    LET counted == [userAgg EXCEPT
                      !.txCount = @ + 1,
                      !.revenueTxCount = @ + 1,
                      !.feeUsd = @ + tx.feeUsd,
                      !.volumeUsd = @ + tx.volumeUsd,
                      !.lastRevenueTxAt = Some(tx.createdAt)]
    IN  IF Falsy(userAgg.firstRevenueTxAt)
        THEN [counted EXCEPT
                !.firstRevenueTxAt = Some(tx.createdAt),
                !.timeToFirstTxMs = IF userAgg.signupAt # 0
                                    THEN Some(tx.createdAt - userAgg.signupAt) ELSE None]
        ELSE IF ~userAgg.retainedWithin30d
                  /\ tx.createdAt - userAgg.firstRevenueTxAt[1] <= 30 * DAY_MS
             THEN [counted EXCEPT !.retainedWithin30d = TRUE]
             ELSE counted

(* addRevenueTransaction, everything one aggregate receives from an attributed tx *)
applyTx(r, tx, dateKey, category, isFirst) ==
    LET r1 == IF isFirst
              THEN [r EXCEPT !.firstRevenueTxByDate = incrementMap(@, dateKey, 1)]
              ELSE r
    IN  applyTotals(
          applySwapFlow(
            applyTokens(applyBuckets(r1, tx, dateKey, category), tx.tokens, dateKey, category),
            tx, dateKey),
          tx)

(* Mutant of applyTxGlobal: the first-revenue bucket of the global aggregate is left out *)
applyTxGlobal_NoFirstRevenue(global, tx, dateKey, category, isFirst) ==
    applyTx(global, tx, dateKey, category, FALSE)

(* addRevenueTransaction, what index.global receives: the same updates as the referral *)
applyTxGlobal(global, tx, dateKey, category, isFirst) ==
    applyTx(global, tx, dateKey, category, isFirst)

TxLite(tx, customer) ==
    [ hash |-> tx.hash, createdAt |-> tx.createdAt, wallet |-> tx.wallet,
      feeUsd |-> tx.feeUsd, volumeUsd |-> tx.volumeUsd, referral |-> customer.referral ]

(* The reference of the UserAgg a transaction updates, 0 when there is none: *)
(* referral.users.get(tx.wallet) ?? index.usersByWallet.get(tx.wallet)       *)
userRefOf(ix, key, wallet) ==
    LET referral == MapGet(ix.referrals, key, createReferralIndex(key)) IN
    IF MapHas(referral.users, wallet) THEN MapGet(referral.users, wallet, 0)
    ELSE MapGet(ix.usersByWallet, wallet, 0)

(* Mutant of countUnattributed: the transaction is booked on 'Unassigned' *)
countUnattributed_Unassigned(ix) ==
    getReferral([ix EXCEPT !.totals.unattributedTxCount = @ + 1], "")

(* lines 481-484: the transaction of a wallet no customer owns *)
(* Mutant of countUnattributed: the transaction is not counted *)
countUnattributed_Never(ix) == ix

countUnattributed(ix) == [ix EXCEPT !.totals.unattributedTxCount = @ + 1]

(* The result also names the code the transaction went to (<<>> when none)  *)
(* and the transactions the retention policy discarded.                     *)
addRevenueTransaction(ix, hp, tx) ==
    LET ix0 == [ix EXCEPT !.totals.revenueTxCount = @ + 1] IN
    IF ~MapHas(ix.customersByWallet, tx.wallet)
    THEN [ index |-> countUnattributed(ix0), heap |-> hp, code |-> None, cut |-> <<>> ]
    ELSE
    LET customer == MapGet(ix.customersByWallet, tx.wallet, <<>>)
        ix1 == getReferral(ix0, customer.referral)
        key == ReferralKey(customer.referral)
        dateKey == toDateKey(tx.createdAt)
        category == IF tx.category = "" THEN "Unknown" ELSE tx.category
        ref == userRefOf(ix1, key, tx.wallet)
    IN
    IF ref = 0
    THEN [ index |-> ix1, heap |-> hp, code |-> None, cut |-> <<>> ]
    ELSE
    LET userAgg == hp[ref]
        isFirst == Falsy(userAgg.firstRevenueTxAt)
        referral == MapGet(ix1.referrals, key, createReferralIndex(key))
        referral2 == applyTx(referral, tx, dateKey, category, isFirst)
        txLite == TxLite(tx, customer)
        referral3 == [referral2 EXCEPT
                        !.topRevenueTxs = maybeStoreTx(@, txLite, ix.options)]
        customerDaily == MapGet(ix1.customerUsageDaily, customer.id, <<>>)
    IN  [ index |->
            [ SetReferral(ix1, key, referral3) EXCEPT
                !.global = applyTxGlobal(@, tx, dateKey, category, isFirst),
                !.customerUsageDaily =
                    MapSet(@, customer.id, bumpDaily(customerDaily, dateKey, tx.feeUsd, tx.volumeUsd)) ],
          heap |-> [hp EXCEPT ![ref] = updateUserAgg(userAgg, tx)],
          code |-> Some(key),
          cut |-> RemoveAll(Append(referral2.topRevenueTxs, txLite), referral3.topRevenueTxs) ]

-----------------------------------------------------------------------------
(* Snapshot codec *)

(* Array.from(map.entries()).map(([key, daily]) => ({ key, daily: Array.from(daily.entries()) })) *)
NestedEntries(map) ==
    [i \in 1..Len(map) |-> [key |-> map[i][1], daily |-> map[i][2]]]

(* Array.from(map.entries()).map(([symbol, daily]) => ({ symbol, daily: [{ date, categories }] })) *)
TokenCategoryEntries(map) ==
    [i \in 1..Len(map) |->
        [symbol |-> map[i][1],
         daily |-> [j \in 1..Len(map[i][2]) |->
                       [date |-> map[i][2][j][1], categories |-> map[i][2][j][2]]]]]

(* One SerializedReferral *)
serializeReferral(r) ==
    [ code |-> r.code,
      signupsByDate |-> r.signupsByDate,
      kycByDate |-> r.kycByDate,
      firstRevenueTxByDate |-> r.firstRevenueTxByDate,
      daily |-> r.daily,
      feeByCategory |-> r.feeByCategory,
      feeByCategoryDaily |-> NestedEntries(r.feeByCategoryDaily),
      volumeByCategory |-> r.volumeByCategory,
      volumeByCategoryDaily |-> NestedEntries(r.volumeByCategoryDaily),
      tokenVolumeBySymbol |-> r.tokenVolumeBySymbol,
      tokenVolumeBySymbolDaily |-> NestedEntries(r.tokenVolumeBySymbolDaily),
      tokenCategoryBySymbolDaily |-> TokenCategoryEntries(r.tokenCategoryBySymbolDaily),
      swapFlowByPair |-> r.swapFlowByPair,
      swapFlowByPairDaily |-> NestedEntries(r.swapFlowByPairDaily),
      users |-> MapValues(r.users),
      topRevenueTxs |-> r.topRevenueTxs,
      feeUsdTotal |-> r.feeUsdTotal,
      volumeUsdTotal |-> r.volumeUsdTotal,
      revenueTxCount |-> r.revenueTxCount ]

serializeIndex(ix) ==
    [ options |-> ix.options,
      totals |-> ix.totals,
      customers |-> MapValues(ix.customersByWallet),
      global |-> serializeReferral(ix.global),
      referrals |-> [i \in 1..Len(ix.referrals) |-> serializeReferral(ix.referrals[i][2])],
      referralCodes |-> MapValues(ix.referralCodes),
      ownerUsageDaily |-> NestedEntries(ix.ownerUsageDaily),
      customerUsageDaily |-> NestedEntries(ix.customerUsageDaily) ]

RECURSIVE NestedFromEntries_EmptyInner(_, _)
(* Mutant of NestedFromEntries: new Map() in place of new Map(entry.daily) *)
NestedFromEntries_EmptyInner(map, entries) ==
    IF entries = <<>> THEN map
    ELSE NestedFromEntries_EmptyInner(MapSet(map, Head(entries).key, <<>>), Tail(entries))

RECURSIVE NestedFromEntries(_, _)
(* entries.forEach((entry) => map.set(entry.key, new Map(entry.daily))) *)
NestedFromEntries(map, entries) ==
    IF entries = <<>> THEN map
    ELSE NestedFromEntries(MapSet(map, Head(entries).key, MapFromEntries(<<>>, Head(entries).daily)),
                           Tail(entries))

RECURSIVE DateMapFromEntries(_, _)
(* entry.daily.forEach((d) => dateMap.set(d.date, new Map(d.categories))) *)
DateMapFromEntries(dateMap, daily) ==
    IF daily = <<>> THEN dateMap
    ELSE DateMapFromEntries(
             MapSet(dateMap, Head(daily).date, MapFromEntries(<<>>, Head(daily).categories)),
             Tail(daily))

RECURSIVE TokenCategoryFromEntries(_, _)
TokenCategoryFromEntries(map, entries) ==
    IF entries = <<>> THEN map
    ELSE TokenCategoryFromEntries(
             MapSet(map, Head(entries).symbol, DateMapFromEntries(<<>>, Head(entries).daily)),
             Tail(entries))

RECURSIVE UsersFromList(_, _, _)
(* users.forEach((user) => map.set(user.wallet, user)) *)
UsersFromList(map, users, hp) ==
    IF users = <<>> THEN map
    ELSE UsersFromList(MapSet(map, hp[Head(users)].wallet, Head(users)), Tail(users), hp)

RECURSIVE CustomersFromList(_, _, _)
(* customers.forEach((customer) => map.set(customer[field], customer)) *)
CustomersFromList(map, customers, byWallet) ==
    IF customers = <<>> THEN map
    ELSE CustomersFromList(
             MapSet(map, IF byWallet THEN Head(customers).smartWallet ELSE Head(customers).id,
                    Head(customers)),
             Tail(customers), byWallet)

(* One ReferralIndex rebuilt from its SerializedReferral *)
deserializeReferral(sr, hp) ==
    [ code |-> sr.code,
      signupsByDate |-> MapFromEntries(<<>>, sr.signupsByDate),
      kycByDate |-> MapFromEntries(<<>>, sr.kycByDate),
      firstRevenueTxByDate |-> MapFromEntries(<<>>, sr.firstRevenueTxByDate),
      daily |-> MapFromEntries(<<>>, sr.daily),
      feeByCategory |-> MapFromEntries(<<>>, sr.feeByCategory),
      feeByCategoryDaily |-> NestedFromEntries(<<>>, sr.feeByCategoryDaily),
      volumeByCategory |-> MapFromEntries(<<>>, sr.volumeByCategory),
      volumeByCategoryDaily |-> NestedFromEntries(<<>>, sr.volumeByCategoryDaily),
      tokenVolumeBySymbol |-> MapFromEntries(<<>>, sr.tokenVolumeBySymbol),
      tokenVolumeBySymbolDaily |-> NestedFromEntries(<<>>, sr.tokenVolumeBySymbolDaily),
      tokenCategoryBySymbolDaily |-> TokenCategoryFromEntries(<<>>, sr.tokenCategoryBySymbolDaily),
      swapFlowByPair |-> MapFromEntries(<<>>, sr.swapFlowByPair),
      swapFlowByPairDaily |-> NestedFromEntries(<<>>, sr.swapFlowByPairDaily),
      users |-> UsersFromList(<<>>, sr.users, hp),
      topRevenueTxs |-> sr.topRevenueTxs,
      feeUsdTotal |-> sr.feeUsdTotal,
      volumeUsdTotal |-> sr.volumeUsdTotal,
      revenueTxCount |-> sr.revenueTxCount ]

RECURSIVE ReferralsFromList(_, _, _)
(* snapshot.referrals.forEach((referral) => index.referrals.set(referral.code, created)) *)
ReferralsFromList(map, referrals, hp) ==
    IF referrals = <<>> THEN map
    ELSE ReferralsFromList(MapSet(map, Head(referrals).code, deserializeReferral(Head(referrals), hp)),
                           Tail(referrals), hp)

RECURSIVE UsersByWalletFromList(_, _, _)
(* In the same loop: referral.users.forEach((user) => index.usersByWallet.set(user.wallet, user)) *)
UsersByWalletFromList(map, referrals, hp) ==
    IF referrals = <<>> THEN map
    ELSE UsersByWalletFromList(UsersFromList(map, Head(referrals).users, hp), Tail(referrals), hp)

RECURSIVE MetasFromList(_, _)
(* new Map(snapshot.referralCodes.map((meta) => [meta.code, meta])) *)
MetasFromList(map, metas) ==
    IF metas = <<>> THEN map
    ELSE MetasFromList(MapSet(map, Head(metas).code, Head(metas)), Tail(metas))

deserializeIndex(snapshot, hp) ==
    [ customersByWallet |-> CustomersFromList(<<>>, snapshot.customers, TRUE),
      customersById |-> CustomersFromList(<<>>, snapshot.customers, FALSE),
      usersByWallet |-> UsersByWalletFromList(<<>>, snapshot.referrals, hp),
      referrals |-> ReferralsFromList(<<>>, snapshot.referrals, hp),
      referralCodes |-> MetasFromList(<<>>, snapshot.referralCodes),
      ownerUsageDaily |-> NestedFromEntries(<<>>, snapshot.ownerUsageDaily),
      customerUsageDaily |-> NestedFromEntries(<<>>, snapshot.customerUsageDaily),
      global |-> deserializeReferral(snapshot.global, hp),
      totals |-> snapshot.totals,
      options |-> snapshot.options ]

-----------------------------------------------------------------------------
(* Query engine.  A query that names a code other than 'all' goes through    *)
(* getReferral; QueryIndex is the index after the query, and the operators   *)
(* below compute the value the query returns.                                *)

QueryIndex(ix, code) == IF code = "all" THEN ix ELSE getReferral(ix, code)

QueryReferral(ix, code) == IF code = "all" THEN ix.global ELSE Referral(ix, code)

isDateInRange_OpenEnd(date, range) == date >= range.start /\ date < range.end

isDateInRange(date, range) == date >= range.start /\ date <= range.end

RECURSIVE sumMapByRange(_, _)
sumMapByRange(map, range) ==
    IF map = <<>> THEN 0
    ELSE (IF isDateInRange(Head(map)[1], range) THEN Head(map)[2] ELSE 0)
         + sumMapByRange(Tail(map), range)

RECURSIVE sumDailyByRange(_, _)
sumDailyByRange(map, range) ==
    IF map = <<>> THEN [feeUsd |-> 0, volumeUsd |-> 0, revenueTxCount |-> 0]
    ELSE LET rest == sumDailyByRange(Tail(map), range)
             value == Head(map)[2]
         IN  IF isDateInRange(Head(map)[1], range)
             THEN [feeUsd |-> value.feeUsd + rest.feeUsd,
                   volumeUsd |-> value.volumeUsd + rest.volumeUsd,
                   revenueTxCount |-> value.revenueTxCount + rest.revenueTxCount]
             ELSE rest

(* JavaScript numbers that come out of a division: an exact fraction in    *)
(* lowest terms, or NaN (0/0), or Infinity (x/0).                          *)
RECURSIVE GCD(_, _)
GCD(a, b) == IF b = 0 THEN a ELSE GCD(b, a % b)

Abs(x) == IF x < 0 THEN -x ELSE x

Num(n) == [kind |-> "number", num |-> n, den |-> 1]

Divide(a, b) ==
    IF b = 0 THEN [kind |-> IF a = 0 THEN "NaN" ELSE "Infinity", num |-> 0, den |-> 0]
    ELSE LET g == GCD(Abs(a), Abs(b))
             s == IF b < 0 THEN -1 ELSE 1
         IN  [kind |-> "number", num |-> s * (a \div g), den |-> s * (b \div g)]

(* Array.prototype.sort(compare) with a comparator that orders by one or two *)
(* numbers, largest first: the elements are given as [k1, k2, v], where k1  *)
(* and k2 are the numbers compare looks at (k2 = 0 when it looks at one).   *)
KeyGreater(a, b) == a.k1 > b.k1 \/ (a.k1 = b.k1 /\ a.k2 > b.k2)

RECURSIVE InsertKeyed(_, _)
(* Places x before the first element that compare puts strictly after it *)
InsertKeyed(sorted, x) ==
    IF sorted = <<>> THEN <<x>>
    ELSE IF KeyGreater(x, Head(sorted)) THEN <<x>> \o sorted
         ELSE <<Head(sorted)>> \o InsertKeyed(Tail(sorted), x)

RECURSIVE SortKeyed(_)
(* The sort is stable: elements that compare equal keep their order *)
SortKeyed(s) ==
    IF s = <<>> THEN <<>>
    ELSE InsertKeyed(SortKeyed(SubSeq(s, 1, Len(s) - 1)), s[Len(s)])

Unkeyed(s) == [i \in 1..Len(s) |-> s[i].v]

(* The median of getReferralMetrics, over samples in timestamp units: each  *)
(* sample is timeToFirstTxMs, the value pushed is timeToFirstTxMs / DAY_MS  *)
medianDays(samples) ==
    LET sorted == Unkeyed(SortKeyed([i \in 1..Len(samples) |->
                                        [k1 |-> -samples[i], k2 |-> 0, v |-> samples[i]]]))
        medianIndex == Len(sorted) \div 2      \* 0-based
    IN  IF Len(sorted) = 0 THEN Num(0)
        ELSE IF Len(sorted) % 2 = 1 THEN Divide(sorted[medianIndex + 1], DAY_MS)
        ELSE Divide(sorted[medianIndex] + sorted[medianIndex + 1], 2 * DAY_MS)

(* Mutant of rateOrZero: the division without its guard *)
rateOrZero_Unguarded(a, b) == Divide(a, b)

(* conversionRate, kycRate, feePerUser, retention30d: denominator ? a / b : 0 *)
rateOrZero(a, b) == IF b # 0 THEN Divide(a, b) ELSE Num(0)

(* The users loop of getReferralMetrics: the users it counts, those it      *)
(* counts as retained, and the timeToFirstTxMs values it collects           *)
(* Mutant of metricsUsers: retained users are counted whatever the range *)
metricsUsers_RetainedAnyRange(ix, hp, code, range) ==
    LET referral == QueryReferral(ix, code)
        rangeStartMs == range.start * DAY_MS
        rangeEndMs == range.end * DAY_MS + DAY_MS - 1
        users == [i \in 1..Len(referral.users) |-> hp[referral.users[i][2]]]
        Counted(user) ==
            /\ ~Falsy(user.firstRevenueTxAt)
            /\ ~Falsy(user.lastRevenueTxAt)
            /\ ~(user.firstRevenueTxAt[1] > rangeEndMs)
            /\ ~(user.lastRevenueTxAt[1] < rangeStartMs)
        FirstInRange(user) ==
            Counted(user) /\ isDateInRange(toDateKey(user.firstRevenueTxAt[1]), range)
        Retained(user) == user.retainedWithin30d
        Sampled(user) == FirstInRange(user) /\ user.timeToFirstTxMs # None
        sampledUsers == SelectSeq(users, Sampled)
    IN  [ usersWithRevenueTx |-> Len(SelectSeq(users, Counted)),
          retainedUsers |-> Len(SelectSeq(users, Retained)),
          timeToFirstValues |->
              [i \in 1..Len(sampledUsers) |-> sampledUsers[i].timeToFirstTxMs[1]] ]

metricsUsers(ix, hp, code, range) ==
    LET referral == QueryReferral(ix, code)
        rangeStartMs == range.start * DAY_MS
        rangeEndMs == range.end * DAY_MS + DAY_MS - 1
        users == [i \in 1..Len(referral.users) |-> hp[referral.users[i][2]]]
        Counted(user) ==
            /\ ~Falsy(user.firstRevenueTxAt)
            /\ ~Falsy(user.lastRevenueTxAt)
            /\ ~(user.firstRevenueTxAt[1] > rangeEndMs)
            /\ ~(user.lastRevenueTxAt[1] < rangeStartMs)
        FirstInRange(user) ==
            Counted(user) /\ isDateInRange(toDateKey(user.firstRevenueTxAt[1]), range)
        Retained(user) == FirstInRange(user) /\ user.retainedWithin30d
        Sampled(user) == FirstInRange(user) /\ user.timeToFirstTxMs # None
        sampledUsers == SelectSeq(users, Sampled)
    IN  [ usersWithRevenueTx |-> Len(SelectSeq(users, Counted)),
          retainedUsers |-> Len(SelectSeq(users, Retained)),
          timeToFirstValues |->
              [i \in 1..Len(sampledUsers) |-> sampledUsers[i].timeToFirstTxMs[1]] ]

getReferralMetrics(ix, hp, code, range) ==
    LET referral == QueryReferral(ix, code)
        signups == sumMapByRange(referral.signupsByDate, range)
        kycUsers == sumMapByRange(referral.kycByDate, range)
        firstRevenueTxUsers == sumMapByRange(referral.firstRevenueTxByDate, range)
        dailyTotals == sumDailyByRange(referral.daily, range)
        loop == metricsUsers(ix, hp, code, range)
        usersWithRevenueTx == loop.usersWithRevenueTx
    IN  [ code |-> referral.code,
          signups |-> signups,
          kycUsers |-> kycUsers,
          usersWithRevenueTx |-> usersWithRevenueTx,
          firstRevenueTxUsers |-> firstRevenueTxUsers,
          feeUsd |-> dailyTotals.feeUsd,
          volumeUsd |-> dailyTotals.volumeUsd,
          conversionRate |-> rateOrZero(usersWithRevenueTx, signups),
          feePerUser |-> rateOrZero(dailyTotals.feeUsd, usersWithRevenueTx),
          retention30d |-> rateOrZero(loop.retainedUsers, usersWithRevenueTx),
          timeToFirstTxMedianDays |-> medianDays(loop.timeToFirstValues),
          kycRate |-> rateOrZero(kycUsers, signups) ]

(* eachDayOfInterval({ start, end }).map(...) for start <= end *)
getDailySeries(ix, code, range) ==
    LET referral == QueryReferral(ix, code) IN
    [ i \in 1..(range.end - range.start + 1) |->
        LET dateKey == range.start + i - 1
            daily == MapGet(referral.daily, dateKey, ZeroDaily(dateKey))
        IN  [ date |-> dateKey,
              feeUsd |-> daily.feeUsd,
              volumeUsd |-> daily.volumeUsd,
              revenueTxCount |-> daily.revenueTxCount,
              signups |-> MapGet(referral.signupsByDate, dateKey, 0),
              firstRevenueTxUsers |-> MapGet(referral.firstRevenueTxByDate, dateKey, 0) ] ]

RECURSIVE sumBucketsByRange(_, _, _)
(* dailyMap.forEach(...): the in-range sums of a bucket's amount field and count *)
(* field; `fields` names the two fields of the bucket.                           *)
sumBucketsByRange(dailyMap, range, fields) ==
    IF dailyMap = <<>> THEN [amount |-> 0, count |-> 0]
    ELSE LET rest == sumBucketsByRange(Tail(dailyMap), range, fields)
             value == Head(dailyMap)[2]
         IN  IF isDateInRange(Head(dailyMap)[1], range)
             THEN [amount |-> value[fields[1]] + rest.amount, count |-> value[fields[2]] + rest.count]
             ELSE rest

(* The per-key totals of a daily-variant map over a range, keeping the keys *)
(* whose amount is > 0, in the order of the map                            *)
rangeTotals(nested, range, fields) ==
    LET all == [i \in 1..Len(nested) |->
                   [key |-> nested[i][1],
                    amount |-> sumBucketsByRange(nested[i][2], range, fields).amount,
                    count |-> sumBucketsByRange(nested[i][2], range, fields).count]]
        Positive(e) == e.amount > 0
    IN  SelectSeq(all, Positive)

(* sort((a, b) => b.amount - a.amount) *)
sortByAmount(totals) ==
    Unkeyed(SortKeyed([i \in 1..Len(totals) |->
                          [k1 |-> totals[i].amount, k2 |-> 0, v |-> totals[i]]]))

(* sort((a, b) => b.volumeUsd - a.volumeUsd || b.txCount - a.txCount) *)
sortByAmountThenCount(totals) ==
    Unkeyed(SortKeyed([i \in 1..Len(totals) |->
                          [k1 |-> totals[i].amount, k2 |-> totals[i].count, v |-> totals[i]]]))

getFeeCategoryBreakdown(ix, code, range) ==
    LET totals == rangeTotals(QueryReferral(ix, code).feeByCategoryDaily, range,
                              <<"feeUsd", "revenueTxCount">>)
        sorted == sortByAmount(totals)
    IN  [i \in 1..Len(sorted) |->
            [category |-> sorted[i].key, feeUsd |-> sorted[i].amount,
             revenueTxCount |-> sorted[i].count]]

VOLUME_CATEGORY_ORDER ==
    <<"Swap", "Crypto Deposits", "Crypto Withdraw", "Liquidity Pool", "On Ramp Transfers", "Off Ramp">>

(* normalizeVolumeCategory, on the category names the model uses *)
normalizeVolumeCategory(category) ==
    CASE category \in {"SWAP", "swap", "CROSS_SWAP"} -> "Swap"
      [] category = "CRYPTO_DEPOSIT" -> "Crypto Deposits"
      [] category = "CRYPTO_WITHDRAW" -> "Crypto Withdraw"
      [] category \in {"LIQUIDITY_POOL", "LIQUIDITY_POOL_ADD"} -> "Liquidity Pool"
      [] category = "ON_RAMP" -> "On Ramp Transfers"
      [] category = "OFF_RAMP" -> "Off Ramp"
      [] OTHER -> ""

getVolumeCategoryBreakdown(ix, code, range) ==
    LET totals == rangeTotals(QueryReferral(ix, code).volumeByCategoryDaily, range,
                              <<"volumeUsd", "revenueTxCount">>)
        Grouped(label) ==
            LET InLabel(e) == normalizeVolumeCategory(e.key) = label
                members == SelectSeq(totals, InLabel)
            IN  [volumeUsd |-> SumSeq([i \in 1..Len(members) |-> members[i].amount]),
                 revenueTxCount |-> SumSeq([i \in 1..Len(members) |-> members[i].count])]
    IN  [i \in 1..Len(VOLUME_CATEGORY_ORDER) |->
            [category |-> VOLUME_CATEGORY_ORDER[i],
             volumeUsd |-> Grouped(VOLUME_CATEGORY_ORDER[i]).volumeUsd,
             revenueTxCount |-> Grouped(VOLUME_CATEGORY_ORDER[i]).revenueTxCount]]

getTokenVolumeBreakdown(ix, code, range) ==
    LET totals == rangeTotals(QueryReferral(ix, code).tokenVolumeBySymbolDaily, range,
                              <<"volumeUsd", "txCount">>)
        sorted == sortByAmount(totals)
    IN  [i \in 1..Len(sorted) |->
            [symbol |-> sorted[i].key, volumeUsd |-> sorted[i].amount, txCount |-> sorted[i].count]]

(* Mutant of getSwapFlowLinks: the sorted list is not cut to the limit *)
getSwapFlowLinks_NoLimit(ix, code, range, limit) ==
    LET totals == rangeTotals(QueryReferral(ix, code).swapFlowByPairDaily, range,
                              <<"volumeUsd", "txCount">>)
        links == [i \in 1..Len(totals) |->
                     [source |-> totals[i].key[1], target |-> totals[i].key[2],
                      amount |-> totals[i].amount, count |-> totals[i].count]]
        Named(link) == link.source # "" /\ link.target # ""
        kept == sortByAmountThenCount(SelectSeq(links, Named))
    IN  [i \in 1..Len(kept) |->
            [source |-> kept[i].source, target |-> kept[i].target,
             volumeUsd |-> kept[i].amount, txCount |-> kept[i].count]]

getSwapFlowLinks(ix, code, range, limit) ==
    LET totals == rangeTotals(QueryReferral(ix, code).swapFlowByPairDaily, range,
                              <<"volumeUsd", "txCount">>)
        links == [i \in 1..Len(totals) |->
                     [source |-> totals[i].key[1], target |-> totals[i].key[2],
                      amount |-> totals[i].amount, count |-> totals[i].count]]
        Named(link) == link.source # "" /\ link.target # ""
        sorted == sortByAmountThenCount(SelectSeq(links, Named))
        kept == Slice0(sorted, limit)
    IN  [i \in 1..Len(kept) |->
            [source |-> kept[i].source, target |-> kept[i].target,
             volumeUsd |-> kept[i].amount, txCount |-> kept[i].count]]

RECURSIVE NodeOrder(_, _)
(* nodeOrder: the Set of node names in the order the links add them *)
NodeOrder(seen, links) ==
    IF links = <<>> THEN seen
    ELSE LET source == <<Head(links).source, "(out)">>
             target == <<Head(links).target, "(in)">>
             s1 == IF \E i \in 1..Len(seen) : seen[i] = source THEN seen ELSE Append(seen, source)
             s2 == IF \E i \in 1..Len(s1) : s1[i] = target THEN s1 ELSE Append(s1, target)
         IN  NodeOrder(s2, Tail(links))

getSwapFlowSankeyData(ix, code, range, limit) ==
    LET links == getSwapFlowLinks(ix, code, range, limit)
        Weight(name) ==
            SumSeq([i \in 1..Len(links) |->
                      IF name = <<links[i].source, "(out)">> \/ name = <<links[i].target, "(in)">>
                      THEN links[i].volumeUsd ELSE 0])
        nodeOrder == NodeOrder(<<>>, links)
        orderedNodes == Unkeyed(SortKeyed([i \in 1..Len(nodeOrder) |->
                            [k1 |-> Weight(nodeOrder[i]), k2 |-> 0, v |-> nodeOrder[i]]]))
        NodeIndex(name) == (CHOOSE i \in 1..Len(orderedNodes) : orderedNodes[i] = name) - 1
    IN  [ nodes |-> [i \in 1..Len(orderedNodes) |-> [name |-> orderedNodes[i]]],
          links |-> [i \in 1..Len(links) |->
                       [source |-> NodeIndex(<<links[i].source, "(out)">>),
                        target |-> NodeIndex(<<links[i].target, "(in)">>),
                        value |-> links[i].volumeUsd,
                        txCount |-> links[i].txCount]] ]

-----------------------------------------------------------------------------
(* Inputs *)

Day(n) == n * DAY_MS

(* A Customer as parseCustomersCsv builds it: signupAt is 0 and signupDate *)
(* 'Invalid' when the signup date does not parse; notusId "" is undefined. *)
MkCustomer(id, wallet, referral, signupAt, notusId) ==
    [ id |-> id, smartWallet |-> wallet, signupAt |-> signupAt,
      signupDate |-> IF signupAt # 0 THEN toDateKey(signupAt) ELSE InvalidKey,
      notusId |-> notusId, referral |-> referral ]

(* A ParsedRevenueTx as parseTransactionsNdjson builds it: createdAt is a   *)
(* non-zero timestamp; tokens <<>> and swapFlow <<>> stand for undefined.   *)
MkTx(wallet, createdAt, shape) ==
    [ wallet |-> wallet, createdAt |-> createdAt, feeUsd |-> shape.feeUsd,
      volumeUsd |-> shape.volumeUsd, category |-> shape.category, tokens |-> shape.tokens,
      swapFlow |-> shape.swapFlow, hash |-> shape.hash ]

SwapShape ==
    [ feeUsd |-> 2, volumeUsd |-> 7, category |-> "SWAP",
      tokens |-> << [symbol |-> "ETH", volumeUsd |-> 7], [symbol |-> "USDC", volumeUsd |-> 4] >>,
      swapFlow |-> Some([fromSymbol |-> "ETH", toSymbol |-> "USDC", volumeUsd |-> 7]),
      hash |-> "0xa" ]

(* A cross-chain swap of a token for itself *)
CrossSwapShape ==
    [ feeUsd |-> 1, volumeUsd |-> 9, category |-> "CROSS_SWAP",
      tokens |-> << [symbol |-> "USDC", volumeUsd |-> 9] >>,
      swapFlow |-> Some([fromSymbol |-> "USDC", toSymbol |-> "USDC", volumeUsd |-> 9]),
      hash |-> "0xc" ]

PlainShape ==
    [ feeUsd |-> 3, volumeUsd |-> 5, category |-> "Unknown", tokens |-> << >>, swapFlow |-> None,
      hash |-> "" ]

Wallets == {"w1", "w2"}

(* Spec: two customers sharing wallet w1 under different codes, a customer   *)
(* whose signup date does not parse, a blank referral.                       *)
IngestCustomerInputs ==
    { MkCustomer("c1", "w1", "X", Day(10), "n1"),
      MkCustomer("c2", "w1", "Y", Day(10), ""),
      MkCustomer("c2", "w2", "Y", 0, ""),
      MkCustomer("c3", "w2", "", Day(10), "n3") }

IngestTxInputs ==
    { MkTx(w, Day(11), SwapShape) : w \in Wallets }
      \cup { MkTx(w, Day(12) + 5, PlainShape) : w \in Wallets }
      \cup { MkTx(w, Day(50), SwapShape) : w \in Wallets }

IngestMetaInputs == { [code |-> " X", uses |-> 1, createdBy |-> "c1"] }

IngestOwnerUsageInputs == { [ownerId |-> "c1", dateKey |-> 11, feeUsd |-> 2, volumeUsd |-> 7] }

(* History of the addCustomer calls: all of them, those whose customer has a  *)
(* notusId, those whose signupDate is not 'Invalid'                           *)
NoCustomerCalls == [customers |-> 0, kyc |-> 0, validSignups |-> 0]

CountCustomer(calls, customer) ==
    [ customers |-> calls.customers + 1,
      kyc |-> calls.kyc + (IF customer.notusId # "" THEN 1 ELSE 0),
      validSignups |-> calls.validSignups + (IF customer.signupDate # InvalidKey THEN 1 ELSE 0) ]

(* The history of ingestion calls, kept only where a specification asks    *)
NoHistory == [recording |-> FALSE, calls |-> <<>>]

Call(kind, arg) == [kind |-> kind, arg |-> arg]

Record(h, call) == IF h.recording THEN [h EXCEPT !.calls = Append(@, call)] ELSE h

(* No parseTransactionsNdjson call yet *)
IdleParse ==
    [ phase |-> "idle", file |-> <<>>, lines |-> 0, revenueTxCount |-> 0, errors |-> <<>>,
      delivered |-> <<>>, malformed |-> 0, expected |-> <<>> ]

(* The import page before Build is pressed; the snapshot store is empty *)
IdleBuild ==
    [ pc |-> "idle", isBuilding |-> FALSE, errors |-> <<>>, published |-> None,
      store |-> None, files |-> None, keepFullTx |-> FALSE,
      referralResult |-> None, csvResult |-> None, ownerWallets |-> <<>>,
      txFiles |-> <<>>, ndjsonLines |-> 0, ndjsonErrors |-> <<>>,
      created |-> FALSE, apiCalls |-> 0, saved |-> FALSE, storeThrew |-> FALSE,
      parseThrew |-> FALSE, builds |-> 0 ]

(* The referral detail page before it is opened *)
(* No buildPropagationGraph call has been made *)
IdleGraph ==
    [ phase |-> "idle", root |-> "", map |-> <<>>, nodes |-> <<>>, edges |-> <<>>,
      queue |-> <<>>, visited |-> {}, current |-> [code |-> "", depth |-> 0],
      children |-> <<>>, expanded |-> <<>> ]

IdleAnalysis ==
    [ phase |-> "idle", code |-> "", map |-> <<>>, todo |-> <<>>, cache |-> <<>>,
      stack |-> {}, frames |-> <<>> ]

-----------------------------------------------------------------------------
(* The state machine *)

InitWith(keepFullTxChoices) ==
    /\ \E keepFullTx \in keepFullTxChoices :
         index = createAnalyticsIndex([keepFullTx |-> keepFullTx, maxStoredTxs |-> MaxStoredTxs])
    /\ heap = <<>>
    /\ restored = None
    /\ last = [kind |-> "createAnalyticsIndex"]
    /\ dropped = <<>>
    /\ attributed = <<>>
    /\ nOps = 0
    /\ nQueries = 0
    /\ analysis = IdleAnalysis
    /\ customerCalls = NoCustomerCalls
    /\ parse = IdleParse
    /\ build = IdleBuild
    /\ history = NoHistory
    /\ graph = IdleGraph

AddCustomer(customer) ==
    /\ restored = None
    /\ \E r \in {addCustomer(index, heap, customer)} :
         /\ index' = r.index
         /\ heap' = r.heap
    /\ last' = [kind |-> "addCustomer"]
    /\ nOps' = nOps + 1
    /\ UNCHANGED <<restored, dropped, attributed, nQueries, analysis, parse, build, graph>>
    /\ customerCalls' = CountCustomer(customerCalls, customer)
    /\ history' = Record(history, Call("addCustomer", customer))

AddRevenueTransaction(tx) ==
    /\ restored = None
    /\ \E r \in {addRevenueTransaction(index, heap, tx)} :
         /\ index' = r.index
         /\ heap' = r.heap
         /\ attributed' = IF r.code = None THEN attributed
                          ELSE incrementMap(attributed, r.code[1], 1)
         /\ dropped' = IF r.code = None THEN dropped
                       ELSE MapSet(dropped, r.code[1], MapGet(dropped, r.code[1], <<>>) \o r.cut)
         /\ last' = [kind |-> "addRevenueTransaction", code |-> r.code, cut |-> Len(r.cut)]
    /\ nOps' = nOps + 1
    /\ UNCHANGED <<restored, nQueries, analysis, parse, build, customerCalls, graph>>
    /\ history' = Record(history, Call("addRevenueTransaction", tx))

AddReferralCodeMeta(meta) ==
    /\ restored = None
    /\ index' = addReferralCodeMeta(index, meta)
    /\ last' = [kind |-> "addReferralCodeMeta"]
    /\ nOps' = nOps + 1
    /\ UNCHANGED <<heap, restored, dropped, attributed, nQueries, others, customerCalls>>

AddOwnerUsageDaily(u) ==
    /\ restored = None
    /\ index' = addOwnerUsageDaily(index, u.ownerId, u.dateKey, u.feeUsd, u.volumeUsd)
    /\ last' = [kind |-> "addOwnerUsageDaily"]
    /\ nOps' = nOps + 1
    /\ UNCHANGED <<heap, restored, dropped, attributed, nQueries, others, customerCalls>>

(* The index is saved as a snapshot and read back, as the import page does *)
(* through the snapshot store; ingestion is over by then.                  *)
Restore ==
    /\ restored = None
    /\ restored' = Some(deserializeIndex(serializeIndex(index), heap))
    /\ last' = [kind |-> "deserializeIndex"]
    /\ UNCHANGED <<index, heap, dropped, attributed, nOps, nQueries, others, customerCalls>>

IngestCustomer == nOps < MaxOps /\ \E customer \in IngestCustomerInputs : AddCustomer(customer)

IngestTx == nOps < MaxOps /\ \E tx \in IngestTxInputs : AddRevenueTransaction(tx)

IngestMeta == nOps < MaxOps /\ \E meta \in IngestMetaInputs : AddReferralCodeMeta(meta)

IngestOwnerUsage == nOps < MaxOps /\ \E u \in IngestOwnerUsageInputs : AddOwnerUsageDaily(u)

Init == InitWith({FALSE})

Next == IngestCustomer \/ IngestTx \/ IngestMeta \/ IngestOwnerUsage \/ Restore

Spec == Init /\ [][Next]_vars

-----------------------------------------------------------------------------
(* Properties of ingestion *)

Aggregates(ix) == MapValues(ix.referrals) \o <<ix.global>>

RECURSIVE SumField(_, _)
(* The sum of one field over the values of a Map *)
SumField(map, field) ==
    IF map = <<>> THEN 0 ELSE Head(map)[2][field] + SumField(Tail(map), field)

(* C1. Attribution conservation: the number of transactions ingested equals  *)
(* the transactions counted by the per-code aggregates plus the unattributed *)
(* ones, and the global aggregate counts exactly the attributed ones.        *)
AttributionConservation ==
    /\ index.totals.revenueTxCount
         = SumField(index.referrals, "revenueTxCount") + index.totals.unattributedTxCount
    /\ index.global.revenueTxCount = SumField(index.referrals, "revenueTxCount")

AttributionWitness ==
    /\ index.totals.unattributedTxCount > 0
    /\ Len(index.referrals) >= 2
    /\ \E i \in 1..Len(index.referrals) : index.referrals[i][2].revenueTxCount > 0

(* C2. Bucket consistency: in every aggregate (each code's and the global    *)
(* one) feeUsdTotal is the sum of the daily fees and the sum of the          *)
(* per-category fees.                                                        *)
BucketConsistency ==
    \A i \in 1..Len(Aggregates(index)) :
        LET r == Aggregates(index)[i] IN
        /\ r.feeUsdTotal = SumField(r.daily, "feeUsd")
        /\ r.feeUsdTotal = SumField(r.feeByCategory, "feeUsd")

BucketWitness ==
    \E i \in 1..Len(index.referrals) :
        LET r == index.referrals[i][2] IN
        /\ Len(r.daily) >= 2
        /\ Len(r.feeByCategory) >= 2
        /\ r.revenueTxCount >= 3

(* A totals map and its daily variant agree: same keys, equal sums *)
FamilyConsistent(totals, nested, amount, count) ==
    /\ MapKeys(totals) = MapKeys(nested)
    /\ \A k \in MapKeys(totals) :
         /\ MapGet(totals, k, <<>>)[amount] = SumField(MapGet(nested, k, <<>>), amount)
         /\ MapGet(totals, k, <<>>)[count] = SumField(MapGet(nested, k, <<>>), count)

(* C3. For the four bucket families the totals variant equals the sum of the *)
(* daily variant, key by key and field by field, in every aggregate.         *)
TotalsEqualDailySums ==
    \A i \in 1..Len(Aggregates(index)) :
        LET r == Aggregates(index)[i] IN
        /\ FamilyConsistent(r.feeByCategory, r.feeByCategoryDaily, "feeUsd", "revenueTxCount")
        /\ FamilyConsistent(r.volumeByCategory, r.volumeByCategoryDaily, "volumeUsd", "revenueTxCount")
        /\ FamilyConsistent(r.tokenVolumeBySymbol, r.tokenVolumeBySymbolDaily, "volumeUsd", "txCount")
        /\ FamilyConsistent(r.swapFlowByPair, r.swapFlowByPairDaily, "volumeUsd", "txCount")

TotalsWitness ==
    \E i \in 1..Len(index.referrals) :
        LET r == index.referrals[i][2] IN
        /\ \E k \in MapKeys(r.swapFlowByPairDaily) : Len(MapGet(r.swapFlowByPairDaily, k, <<>>)) >= 2
        /\ \E k \in MapKeys(r.tokenVolumeBySymbolDaily) :
              Len(MapGet(r.tokenVolumeBySymbolDaily, k, <<>>)) >= 2
        /\ Len(r.feeByCategoryDaily) >= 2

(* C6. A transaction whose wallet no customer owns adds one to               *)
(* totals.revenueTxCount and to totals.unattributedTxCount and changes       *)
(* nothing else: no aggregate, bucket, user or usage entry.                  *)
UnattributedFrame ==
    [][\A tx \in IngestTxInputs :
          (AddRevenueTransaction(tx) /\ ~MapHas(index.customersByWallet, tx.wallet))
          => /\ index' = [index EXCEPT !.totals.revenueTxCount = @ + 1,
                                        !.totals.unattributedTxCount = @ + 1]
             /\ heap' = heap]_vars

UnattributedWitness ==
    /\ last.kind = "addRevenueTransaction"
    /\ last.code = None
    /\ index.totals.unattributedTxCount > 0
    /\ index.global.revenueTxCount > 0
    /\ Len(index.customersByWallet) = 1

-----------------------------------------------------------------------------
(* Retention of raw transactions: one code, transactions arriving in any     *)
(* order, two of them with the same createdAt, with and without keepFullTx.  *)

RetentionCustomerInputs == { MkCustomer("c1", "w1", "X", Day(10), "n1") }

RetentionTxInputs ==
    { MkTx("w1", Day(11), PlainShape), MkTx("w1", Day(12), PlainShape),
      MkTx("w1", Day(12), SwapShape), MkTx("w1", Day(13), PlainShape),
      MkTx("w2", Day(12), PlainShape) }

RetentionInit == InitWith(BOOLEAN)

RetentionCustomer ==
    nOps < MaxRetentionOps /\ \E customer \in RetentionCustomerInputs : AddCustomer(customer)

RetentionTx ==
    nOps < MaxRetentionOps /\ \E tx \in RetentionTxInputs : AddRevenueTransaction(tx)

RetentionNext == RetentionCustomer \/ RetentionTx

SpecRetention == RetentionInit /\ [][RetentionNext]_vars

Min(a, b) == IF a < b THEN a ELSE b

(* C4. With keepFullTx false, after every addRevenueTransaction call every   *)
(* referral aggregate's topRevenueTxs has exactly min(maxStoredTxs, number   *)
(* of transactions attributed to its code) entries, hence at most            *)
(* maxStoredTxs.                                                             *)
RetentionCapSize ==
    ~index.options.keepFullTx =>
        \A i \in 1..Len(index.referrals) :
            LET key == index.referrals[i][1]
                referral == index.referrals[i][2]
            IN  /\ Len(referral.topRevenueTxs) <= index.options.maxStoredTxs
                /\ Len(referral.topRevenueTxs)
                     = Min(index.options.maxStoredTxs, MapGet(attributed, key, 0))

RetentionCapSizeWitness ==
    /\ ~index.options.keepFullTx
    /\ last.kind = "addRevenueTransaction"
    /\ last.cut > 0
    /\ \E i \in 1..Len(index.referrals) :
          /\ MapGet(attributed, index.referrals[i][1], 0) > index.options.maxStoredTxs + 1
          /\ Len(index.referrals[i][2].topRevenueTxs) = index.options.maxStoredTxs

(* C5. With keepFullTx false, whatever the arrival order, every transaction  *)
(* still stored in a code's topRevenueTxs has createdAt greater than or      *)
(* equal to the createdAt of every transaction discarded from it.            *)
RetentionKeepsNewest ==
    ~index.options.keepFullTx =>
        \A i \in 1..Len(index.referrals) :
            LET stored == index.referrals[i][2].topRevenueTxs
                gone == MapGet(dropped, index.referrals[i][1], <<>>)
            IN  \A s \in 1..Len(stored), d \in 1..Len(gone) :
                    stored[s].createdAt >= gone[d].createdAt

RetentionKeepsNewestWitness ==
    /\ ~index.options.keepFullTx
    /\ \E i \in 1..Len(index.referrals) :
          LET stored == index.referrals[i][2].topRevenueTxs
              gone == MapGet(dropped, index.referrals[i][1], <<>>)
          IN  /\ Len(gone) >= 2
              /\ \E s \in 1..Len(stored), d \in 1..Len(gone) :
                    stored[s].createdAt = gone[d].createdAt
              /\ \E s \in 1..Len(stored), d \in 1..Len(gone) :
                    stored[s].createdAt > gone[d].createdAt

-----------------------------------------------------------------------------
(* Properties of the snapshot codec *)

QueryCodes == {"all", "X", "Y", "", "Z"}

QueryRanges == { [start |-> 10, end |-> 12], [start |-> 12, end |-> 50], [start |-> 51, end |-> 60] }

QueryLimits == {1, 24}

(* What the queries of the query engine return for one code and one range *)
AllQueries(ix, hp, code, range) ==
    [ metrics |-> getReferralMetrics(ix, hp, code, range),
      dailySeries |-> getDailySeries(ix, code, range),
      feeCategories |-> getFeeCategoryBreakdown(ix, code, range),
      volumeCategories |-> getVolumeCategoryBreakdown(ix, code, range),
      tokenVolumes |-> getTokenVolumeBreakdown(ix, code, range),
      swapFlowLinks |-> [limit \in QueryLimits |-> getSwapFlowLinks(ix, code, range, limit)],
      swapFlowSankey |-> [limit \in QueryLimits |-> getSwapFlowSankeyData(ix, code, range, limit)] ]

(* C7. Every query returns the same value on the index read back from its    *)
(* snapshot as on the index itself, for every code and every range.          *)
RoundTripQueries ==
    restored # None =>
        \A code \in QueryCodes, range \in QueryRanges :
            AllQueries(restored[1], heap, code, range) = AllQueries(index, heap, code, range)

RoundTripQueriesWitness ==
    /\ restored # None
    /\ Len(index.referrals) >= 2
    /\ Len(index.global.users) >= 2
    /\ index.global.swapFlowByPairDaily # <<>>
    /\ getReferralMetrics(index, heap, "all", [start |-> 10, end |-> 12]).usersWithRevenueTx > 0

SameTable(a, b) ==
    /\ MapKeys(a) = MapKeys(b)
    /\ \A k \in MapKeys(a) : MapGet(a, k, <<>>) = MapGet(b, k, <<>>)

(* C8. The index read back from its snapshot has the same customersById,     *)
(* customersByWallet and usersByWallet as the index it was taken from: the   *)
(* same keys, with equal values.                                             *)
RoundTripLookupTables ==
    restored # None =>
        /\ SameTable(restored[1].customersByWallet, index.customersByWallet)
        /\ SameTable(restored[1].customersById, index.customersById)
        /\ MapKeys(restored[1].usersByWallet) = MapKeys(index.usersByWallet)
        /\ \A w \in MapKeys(index.usersByWallet) :
              heap[MapGet(restored[1].usersByWallet, w, 0)] = heap[MapGet(index.usersByWallet, w, 0)]

-----------------------------------------------------------------------------
(* The query engine called on a built index: ingestion first, as the import *)
(* page does, then queries, as the pages do.                                *)

QueryCustomerInputs ==
    { MkCustomer("c1", "w1", "X", Day(10), "n1"), MkCustomer("c2", "w2", "X", 0, "") }

QueryTxInputs ==
    { MkTx("w1", Day(11), SwapShape), MkTx("w2", Day(11), PlainShape),
      MkTx("w1", Day(50), PlainShape), MkTx("w1", Day(12), CrossSwapShape) }

(* 'all', an ingested code, a code never seen during ingestion *)
QueryCodeInputs == {"all", "X", "Z"}

QueryRangeInputs == { [start |-> 10, end |-> 12], [start |-> 40, end |-> 60] }

QueryLimitInputs == {1, 24}

Query(kind, code, range, result) ==
    /\ restored = None
    /\ nQueries < MaxQueries
    /\ index' = QueryIndex(index, code)
    /\ last' = [kind |-> kind, code |-> code, range |-> range, result |-> result]
    /\ nQueries' = nQueries + 1
    /\ UNCHANGED <<heap, restored, dropped, attributed, nOps, others, customerCalls>>

GetReferralMetrics ==
    \E code \in QueryCodeInputs, range \in QueryRangeInputs :
        Query("getReferralMetrics", code, range, getReferralMetrics(index, heap, code, range))

GetDailySeries ==
    \E code \in QueryCodeInputs, range \in QueryRangeInputs :
        Query("getDailySeries", code, range, getDailySeries(index, code, range))

GetFeeCategoryBreakdown ==
    \E code \in QueryCodeInputs, range \in QueryRangeInputs :
        Query("getFeeCategoryBreakdown", code, range, getFeeCategoryBreakdown(index, code, range))

GetVolumeCategoryBreakdown ==
    \E code \in QueryCodeInputs, range \in QueryRangeInputs :
        Query("getVolumeCategoryBreakdown", code, range,
              getVolumeCategoryBreakdown(index, code, range))

GetTokenVolumeBreakdown ==
    \E code \in QueryCodeInputs, range \in QueryRangeInputs :
        Query("getTokenVolumeBreakdown", code, range, getTokenVolumeBreakdown(index, code, range))

GetSwapFlowLinks ==
    \E code \in QueryCodeInputs, range \in QueryRangeInputs, limit \in QueryLimitInputs :
        Query("getSwapFlowLinks", code, range, getSwapFlowLinks(index, code, range, limit))

GetSwapFlowSankeyData ==
    \E code \in QueryCodeInputs, range \in QueryRangeInputs, limit \in QueryLimitInputs :
        Query("getSwapFlowSankeyData", code, range,
              getSwapFlowSankeyData(index, code, range, limit))

QueryStep ==
    \/ GetReferralMetrics
    \/ GetDailySeries
    \/ GetFeeCategoryBreakdown
    \/ GetVolumeCategoryBreakdown
    \/ GetTokenVolumeBreakdown
    \/ GetSwapFlowLinks
    \/ GetSwapFlowSankeyData

QueryIngestCustomer ==
    /\ nQueries = 0
    /\ nOps < MaxQueryIngestOps
    /\ \E customer \in QueryCustomerInputs : AddCustomer(customer)

QueryIngestTx ==
    /\ nQueries = 0
    /\ nOps < MaxQueryIngestOps
    /\ \E tx \in QueryTxInputs : AddRevenueTransaction(tx)

QueryInit == InitWith({FALSE})

QueryNext ==
    \/ QueryIngestCustomer
    \/ QueryIngestTx
    \/ GetReferralMetrics
    \/ GetDailySeries
    \/ GetFeeCategoryBreakdown
    \/ GetVolumeCategoryBreakdown
    \/ GetTokenVolumeBreakdown
    \/ GetSwapFlowLinks
    \/ GetSwapFlowSankeyData

SpecQuery == QueryInit /\ [][QueryNext]_vars

(* C9. A call of getReferralMetrics, getDailySeries, a breakdown or a swap   *)
(* flow query, with any code and any range, leaves the index unchanged: the  *)
(* key set of index.referrals is the same before and after the call.         *)
QueryPurity ==
    [][QueryStep => (index' = index /\ MapKeys(index'.referrals) = MapKeys(index.referrals))]_vars

RateFields == {"conversionRate", "kycRate", "feePerUser", "retention30d", "timeToFirstTxMedianDays"}

(* C10. getReferralMetrics returns conversionRate = 0 and kycRate = 0 when   *)
(* signups in range is 0, feePerUser = 0 and retention30d = 0 when           *)
(* usersWithRevenueTx is 0, timeToFirstTxMedianDays = 0 when there is no     *)
(* sample; every rate field is a number, never NaN or Infinity.              *)
ZeroDivisionSafety ==
    last.kind = "getReferralMetrics" =>
        LET m == last.result
            samples == metricsUsers(index, heap, last.code, last.range).timeToFirstValues
        IN  /\ m.signups = 0 => (m.conversionRate = Num(0) /\ m.kycRate = Num(0))
            /\ m.usersWithRevenueTx = 0 => (m.feePerUser = Num(0) /\ m.retention30d = Num(0))
            /\ samples = <<>> => m.timeToFirstTxMedianDays = Num(0)
            /\ \A f \in RateFields : m[f].kind = "number"

ZeroDivisionSafetyWitness ==
    /\ last.kind = "getReferralMetrics"
    /\ last.result.signups = 0
    /\ last.result.usersWithRevenueTx > 0
    /\ last.result.feeUsd > 0
    /\ metricsUsers(index, heap, last.code, last.range).timeToFirstValues = <<>>

-----------------------------------------------------------------------------
(* Propagation analyzer of the referral detail page.  buildDescendantStats  *)
(* is recursive; its call stack is `frames`, the last frame being the call   *)
(* in progress.  A frame holds the code, the position in children.forEach    *)
(* and the running total and maxDepth.                                       *)

RECURSIVE PropagationFromMetas(_, _, _)
(* index.referralCodes.forEach((meta) => ...) of buildPropagationMap; the    *)
(* creator label is the creator's id (customers carry no email here).        *)
PropagationFromMetas(map, metas, ix) ==
    IF Evaluated(map) /\ metas = <<>> THEN map
    ELSE LET meta == Head(metas)
             creator == MapGet(ix.customersById, meta.createdBy, <<>>)
             parentCode == Trim(creator.referral)
             entry == [code |-> meta.code, creatorId |-> meta.createdBy, creatorLabel |-> creator.id]
         IN  IF meta.createdBy = "" \/ ~MapHas(ix.customersById, meta.createdBy)
             THEN PropagationFromMetas(map, Tail(metas), ix)
             ELSE IF parentCode = ""
             THEN PropagationFromMetas(map, Tail(metas), ix)
             ELSE PropagationFromMetas(
                      MapSet(map, parentCode, Append(MapGet(map, parentCode, <<>>), entry)),
                      Tail(metas), ix)

buildPropagationMap(ix) == PropagationFromMetas(<<>>, MapValues(ix.referralCodes), ix)

(* Mutant of stackHas: the guard against codes already on the stack is gone *)
stackHas_Never(stack, code) == FALSE

(* stack.has(code) *)
stackHas(stack, code) == code \in stack

Max(a, b) == IF a > b THEN a ELSE b

(* Mutant of ReturnTo: the child itself is not counted *)
ReturnTo_NoChild(a, stats) ==
    IF a.frames = <<>> THEN a
    ELSE [a EXCEPT !.frames[Len(a.frames)] =
              [@ EXCEPT !.total = @ + stats.total,
                        !.maxDepth = Max(@, 1 + stats.maxDepth),
                        !.next = @ + 1]]

(* A call returns `stats` to its caller: the forEach body of the caller adds *)
(* it to its sums and moves on; the calls of the page drop the value.        *)
ReturnTo(a, stats) ==
    IF a.frames = <<>> THEN a
    ELSE [a EXCEPT !.frames[Len(a.frames)] =
              [@ EXCEPT !.total = @ + 1 + stats.total,
                        !.maxDepth = Max(@, 1 + stats.maxDepth),
                        !.next = @ + 1]]

(* buildDescendantStats(code, map, cache, stack) up to its forEach *)
EnterStats(a, code) ==
    IF MapHas(a.cache, code) THEN ReturnTo(a, MapGet(a.cache, code, <<>>))
    ELSE IF stackHas(a.stack, code) THEN ReturnTo(a, [total |-> 0, maxDepth |-> 0])
    ELSE [a EXCEPT !.stack = @ \cup {code},
                   !.frames = Append(@, [code |-> code, next |-> 1, total |-> 0, maxDepth |-> 0])]

(* Mutant of VisitChildStats: a child on the stack is counted as a branch   *)
(* that returned {total: 0, maxDepth: 0}                                     *)
VisitChildStats_CountBackEdge(a) ==
    LET frame == a.frames[Len(a.frames)]
        child == MapGet(a.map, frame.code, <<>>)[frame.next]
    IN  IF stackHas(a.stack, child.code)
        THEN ReturnTo(a, [total |-> 0, maxDepth |-> 0])
        ELSE EnterStats(a, child.code)

(* One iteration of children.forEach in the call in progress *)
VisitChildStats(a) ==
    LET frame == a.frames[Len(a.frames)]
        child == MapGet(a.map, frame.code, <<>>)[frame.next]
    IN  IF stackHas(a.stack, child.code)
        THEN [a EXCEPT !.frames[Len(a.frames)].next = @ + 1]
        ELSE EnterStats(a, child.code)

(* buildDescendantStats after its forEach: stack.delete, cache.set, return *)
LeaveStats(a) ==
    LET frame == a.frames[Len(a.frames)]
        stats == [total |-> frame.total, maxDepth |-> frame.maxDepth]
    IN  ReturnTo([a EXCEPT !.stack = @ \ {frame.code},
                           !.cache = MapSet(@, frame.code, stats),
                           !.frames = SubSeq(@, 1, Len(@) - 1)],
                 stats)

(* The descendantCache memo is complete when no call is left or in progress *)
Settle(a) ==
    [a EXCEPT !.phase = IF a.frames = <<>> /\ a.todo = <<>> THEN "done" ELSE "running"]

PropagationCustomerInputs ==
    << MkCustomer("ca", "w1", "A", Day(10), "n1"),
       MkCustomer("cb", "w2", "B", Day(10), ""),
       MkCustomer("cc", "w3", "C", Day(10), "") >>

(* A -> B, B -> C, C -> A close a cycle; A -> B, B -> A a shorter one;       *)
(* A -> A is a self-loop; A -> C with A -> B is a tree; the last code has no *)
(* creator.                                                                  *)
PropagationMetaInputs ==
    { [code |-> "B", uses |-> 1, createdBy |-> "ca"],
      [code |-> "C", uses |-> 1, createdBy |-> "cb"],
      [code |-> "A", uses |-> 1, createdBy |-> "cc"],
      [code |-> "A", uses |-> 1, createdBy |-> "cb"],
      [code |-> "A", uses |-> 1, createdBy |-> "ca"],
      [code |-> "C", uses |-> 1, createdBy |-> "ca"],
      [code |-> "D", uses |-> 1, createdBy |-> ""] }

PageCodeInputs == {"A", "C", "Z"}

RECURSIVE CountCustomers(_, _)
CountCustomers(calls, customers) ==
    IF customers = <<>> THEN calls
    ELSE CountCustomers(CountCustomer(calls, Head(customers)), Tail(customers))

RECURSIVE AddCustomers(_, _, _)
AddCustomers(ix, hp, customers) ==
    IF Evaluated(hp) /\ customers = <<>> THEN [index |-> ix, heap |-> hp]
    ELSE LET r == addCustomer(ix, hp, Head(customers))
         IN  AddCustomers(r.index, r.heap, Tail(customers))

(* The customers file has been ingested; the referral codes file follows *)
PropagationInit ==
    /\ \E r \in {AddCustomers(createAnalyticsIndex([keepFullTx |-> FALSE,
                                                     maxStoredTxs |-> MaxStoredTxs]),
                              <<>>, PropagationCustomerInputs)} :
          index = r.index /\ heap = r.heap
    /\ restored = None
    /\ last = [kind |-> "addCustomer"]
    /\ dropped = <<>>
    /\ attributed = <<>>
    /\ nOps = 0
    /\ nQueries = 0
    /\ analysis = IdleAnalysis
    /\ customerCalls = CountCustomers(NoCustomerCalls, PropagationCustomerInputs)
    /\ parse = IdleParse
    /\ build = IdleBuild
    /\ history = NoHistory
    /\ graph = IdleGraph

PropagationMeta ==
    /\ analysis.phase = "idle"
    /\ nOps < MaxPropagationMetas
    /\ \E meta \in PropagationMetaInputs : AddReferralCodeMeta(meta)

(* The page is opened on `code`: the propagationMap memo, and the list of    *)
(* calls the descendantCache memo will make                                  *)
OpenPage(code) ==
    /\ analysis.phase = "idle"
    /\ analysis' = Settle([IdleAnalysis EXCEPT
                              !.code = code,
                              !.map = buildPropagationMap(index),
                              !.todo = [i \in 1..Len(index.referralCodes) |->
                                            index.referralCodes[i][2].code] \o <<code>>])
    /\ last' = [kind |-> "buildPropagationMap"]
    /\ UNCHANGED <<index, heap, restored, dropped, attributed, nOps, nQueries, customerCalls, parse, build, history, graph>>

OpenReferralPage == \E code \in PageCodeInputs : OpenPage(code)

(* The next call of the descendantCache memo *)
CallStats ==
    /\ analysis.phase = "running"
    /\ analysis.frames = <<>>
    /\ analysis.todo # <<>>
    /\ analysis' = Settle(EnterStats([analysis EXCEPT !.todo = Tail(@)], Head(analysis.todo)))
    /\ last' = [kind |-> "buildDescendantStats"]
    /\ UNCHANGED <<index, heap, restored, dropped, attributed, nOps, nQueries, customerCalls, parse, build, history, graph>>

VisitChild ==
    /\ analysis.phase = "running"
    /\ analysis.frames # <<>>
    /\ analysis.frames[Len(analysis.frames)].next
          <= Len(MapGet(analysis.map, analysis.frames[Len(analysis.frames)].code, <<>>))
    /\ analysis' = Settle(VisitChildStats(analysis))
    /\ last' = [kind |-> "buildDescendantStats"]
    /\ UNCHANGED <<index, heap, restored, dropped, attributed, nOps, nQueries, customerCalls, parse, build, history, graph>>

ReturnStats ==
    /\ analysis.phase = "running"
    /\ analysis.frames # <<>>
    /\ analysis.frames[Len(analysis.frames)].next
          > Len(MapGet(analysis.map, analysis.frames[Len(analysis.frames)].code, <<>>))
    /\ analysis' = Settle(LeaveStats(analysis))
    /\ last' = [kind |-> "buildDescendantStats"]
    /\ UNCHANGED <<index, heap, restored, dropped, attributed, nOps, nQueries, customerCalls, parse, build, history, graph>>

StatsStep == CallStats \/ VisitChild \/ ReturnStats

PropagationNext == PropagationMeta \/ OpenReferralPage \/ CallStats \/ VisitChild \/ ReturnStats

(* A call in progress runs on: JavaScript runs the memo to completion *)
SpecPropagation == PropagationInit /\ [][PropagationNext]_vars /\ WF_vars(StatsStep)

(* The codes of a propagation map: the parents and the children *)
MapCodes(map) ==
    MapKeys(map) \cup UNION { {map[i][2][j].code : j \in 1..Len(map[i][2])} : i \in 1..Len(map) }

DescendantStatsBounded ==
    LET n == Cardinality(MapCodes(analysis.map)) IN
    /\ Len(analysis.frames) <= n + 1
    /\ \A i \in 1..Len(analysis.cache) :
          LET stats == analysis.cache[i][2] IN
          /\ stats.total >= 0 /\ stats.total <= n
          /\ stats.maxDepth >= 0 /\ stats.maxDepth <= n
    /\ analysis.phase = "done" =>
          /\ MapHas(analysis.cache, analysis.code)
          /\ \A i \in 1..Len(index.referralCodes) :
                MapHas(analysis.cache, index.referralCodes[i][2].code)

(* C11. For every propagation map, with cycles and self-loops, every call of *)
(* buildDescendantStats terminates, and the total and maxDepth it returns    *)
(* for every code are finite, non-negative and at most the number of codes   *)
(* in the map.                                                               *)
PropagationCycleSafety ==
    /\ []DescendantStatsBounded
    /\ (analysis.phase = "running") ~> (analysis.phase = "done")

ChildCodes(map, code) ==
    {MapGet(map, code, <<>>)[j].code : j \in 1..Len(MapGet(map, code, <<>>))}

(* The cycle A -> B -> C -> A, analysed to the end *)
PropagationCycleSafetyWitness ==
    /\ analysis.phase = "done"
    /\ "B" \in ChildCodes(analysis.map, "A")
    /\ "C" \in ChildCodes(analysis.map, "B")
    /\ "A" \in ChildCodes(analysis.map, "C")
    /\ MapGet(analysis.cache, analysis.code, <<>>).total = 2

-----------------------------------------------------------------------------
(* Further properties of ingestion *)

CodesHolding(ix, wallet) ==
    {ix.referrals[i][1] : i \in {j \in 1..Len(ix.referrals) : MapHas(ix.referrals[j][2].users, wallet)}}

(* C12. Every registered wallet is in the users map of exactly one entry of  *)
(* index.referrals, the one of the referral of customersByWallet[wallet].    *)
WalletInOneCode ==
    \A wallet \in MapKeys(index.customersByWallet) :
        CodesHolding(index, wallet)
            = {ReferralKey(MapGet(index.customersByWallet, wallet, <<>>).referral)}

SumOverReferrals(ix, F(_)) == SumSeq([i \in 1..Len(ix.referrals) |-> F(ix.referrals[i][2])])

DateKeysOf(r) ==
    MapKeys(r.daily) \cup MapKeys(r.signupsByDate) \cup MapKeys(r.kycByDate)
        \cup MapKeys(r.firstRevenueTxByDate)

(* C13. The global aggregate mirrors the per-code aggregates: its three      *)
(* totals, and for every date its daily bucket and its signup, KYC and       *)
(* first-revenue buckets, equal the sums over the entries of index.referrals.*)
GlobalMirrorsReferrals ==
    LET global == index.global
        dates == DateKeysOf(global)
                   \cup UNION {DateKeysOf(index.referrals[i][2]) : i \in 1..Len(index.referrals)}
    IN  /\ global.feeUsdTotal = SumOverReferrals(index, LAMBDA r : r.feeUsdTotal)
        /\ global.volumeUsdTotal = SumOverReferrals(index, LAMBDA r : r.volumeUsdTotal)
        /\ global.revenueTxCount = SumOverReferrals(index, LAMBDA r : r.revenueTxCount)
        /\ \A d \in dates :
              /\ \A f \in {"feeUsd", "volumeUsd", "revenueTxCount"} :
                    MapGet(global.daily, d, ZeroDaily(d))[f]
                      = SumOverReferrals(index, LAMBDA r : MapGet(r.daily, d, ZeroDaily(d))[f])
              /\ MapGet(global.signupsByDate, d, 0)
                   = SumOverReferrals(index, LAMBDA r : MapGet(r.signupsByDate, d, 0))
              /\ MapGet(global.kycByDate, d, 0)
                   = SumOverReferrals(index, LAMBDA r : MapGet(r.kycByDate, d, 0))
              /\ MapGet(global.firstRevenueTxByDate, d, 0)
                   = SumOverReferrals(index, LAMBDA r : MapGet(r.firstRevenueTxByDate, d, 0))

GlobalMirrorsWitness ==
    /\ Len(index.referrals) >= 2
    /\ \A i \in 1..Len(index.referrals) : index.referrals[i][2].revenueTxCount > 0
    /\ index.global.kycByDate # <<>>
    /\ Len(index.global.firstRevenueTxByDate) >= 1
    /\ index.global.revenueTxCount >= 2

(* C14. totals.customers is the number of addCustomer calls, totals.kycUsers *)
(* the number of those whose customer had a notusId, the sum of              *)
(* global.signupsByDate the number of those whose signupDate was not         *)
(* 'Invalid', and no signupsByDate or kycByDate map has the key 'Invalid'.   *)
CustomerCounters ==
    /\ index.totals.customers = customerCalls.customers
    /\ index.totals.kycUsers = customerCalls.kyc
    /\ SumSeq(MapValues(index.global.signupsByDate)) = customerCalls.validSignups
    /\ \A i \in 1..Len(Aggregates(index)) :
          /\ ~MapHas(Aggregates(index)[i].signupsByDate, InvalidKey)
          /\ ~MapHas(Aggregates(index)[i].kycByDate, InvalidKey)

CustomerCountersWitness ==
    /\ customerCalls.customers >= 3
    /\ customerCalls.validSignups < customerCalls.customers
    /\ customerCalls.validSignups > 0
    /\ customerCalls.kyc > 0
    /\ customerCalls.kyc < customerCalls.customers


-----------------------------------------------------------------------------
(* parseTransactionsNdjson: one call over the lines of a file                *)

(* The error log of a parser call never grows past this many messages *)
MaxErrorLog == 50

MaxFileLines == 53

pushError(errors, message) ==
    IF Len(errors) < MaxErrorLog THEN Append(errors, message) ELSE errors

(* A line of a transactions file, by what parseLine finds in it:            *)
(*   "invalidJson"  JSON.parse throws                                       *)
(*   "null"         the JSON value null: data.type throws a TypeError       *)
(*   "pending"      a status outside COMPLETED_STATUSES                     *)
(*   "excluded"     an excluded token                                       *)
(*   "noVolume", "noWallet", "noCreatedAt"  a required field is missing     *)
(*   "tx"           a revenue transaction                                   *)
(*   "blank"        only white space                                        *)
Line(kind) == [kind |-> kind, tx |-> None]

TxLine(tx) == [kind |-> "tx", tx |-> Some(tx)]

MalformedKinds == {"invalidJson", "null", "noVolume", "noWallet", "noCreatedAt"}

parseLine(p, line) ==
    LET n == p.lines + 1
        q == [p EXCEPT !.lines = n]
        fail(text) == [q EXCEPT !.errors = pushError(q.errors, [line |-> n, text |-> text])]
    IN  CASE line.kind = "invalidJson" -> fail("invalid JSON.")
          [] line.kind = "null"        -> [q EXCEPT !.phase = "rejected"]
          [] line.kind \in {"pending", "excluded"} -> q
          [] line.kind = "noVolume"    -> fail("missing volume usd.")
          [] line.kind = "noWallet"    -> fail("missing wallet.")
          [] line.kind = "noCreatedAt" -> fail("invalid createdAt.")
          [] OTHER ->
                [q EXCEPT !.revenueTxCount = @ + 1,
                          !.delivered = Append(@, line.tx[1])]

(* The reading loop for one line: blank lines are dropped before parseLine *)
readLine(p, line) ==
    IF line.kind = "blank" THEN p ELSE parseLine(p, line)

(* The whole call, as buildDashboard awaits it: the lines in order until    *)
(* the end of the file or until parseLine throws.                            *)
RECURSIVE parseLines(_, _)
parseLines(p, file) ==
    IF file = <<>> \/ p.phase = "rejected" THEN p
    ELSE parseLines(readLine(p, Head(file)), Tail(file))

parseTransactionsNdjson(file) ==
    LET p == parseLines([IdleParse EXCEPT !.phase = "reading"], file)
    IN  IF p.phase = "rejected" THEN p ELSE [p EXCEPT !.phase = "resolved"]

RECURSIVE Repeat(_, _)
Repeat(line, n) == IF n = 0 THEN <<>> ELSE <<line>> \o Repeat(line, n - 1)

RECURSIVE RevenueTxsOf(_)
RevenueTxsOf(file) ==
    IF file = <<>> THEN <<>>
    ELSE (IF Head(file).kind = "tx" THEN <<Head(file).tx[1]>> ELSE <<>>)
            \o RevenueTxsOf(Tail(file))

(* Files: more malformed lines than the log holds and then a transaction;   *)
(* every kind of rejected record between transactions; the JSON value null  *)
(* between transactions.                                                     *)
ParserFileInputs ==
    { Repeat(Line("invalidJson"), MaxFileLines - 1) \o <<TxLine(MkTx("w1", Day(11), SwapShape))>>,
      Repeat(Line("noWallet"), MaxFileLines - 3) \o <<TxLine(MkTx("w2", Day(11), PlainShape))>>,
      << TxLine(MkTx("w1", Day(11), SwapShape)), Line("noVolume"), Line("blank"),
         Line("noWallet"), Line("pending"), Line("noCreatedAt"), Line("excluded"),
         Line("invalidJson"), TxLine(MkTx("w2", Day(12) + 5, PlainShape)) >>,
      << TxLine(MkTx("w1", Day(11), SwapShape)), Line("null"),
         TxLine(MkTx("w2", Day(12) + 5, PlainShape)) >> }

OpenFile(file) ==
    /\ parse.phase = "idle"
    /\ parse' = [IdleParse EXCEPT !.phase = "reading", !.file = file,
                                  !.expected = RevenueTxsOf(file)]
    /\ UNCHANGED <<index, heap, restored, last, dropped, attributed, nOps, nQueries, analysis,
                   customerCalls, build, history, graph>>

ReadLine ==
    /\ parse.phase = "reading"
    /\ parse.file # <<>>
    /\ \E line \in {Head(parse.file)} :
          parse' = [readLine(parse, line) EXCEPT
                        !.file = Tail(@),
                        !.malformed = IF line.kind \in MalformedKinds THEN @ + 1 ELSE @]
    /\ UNCHANGED <<index, heap, restored, last, dropped, attributed, nOps, nQueries, analysis,
                   customerCalls, build, history, graph>>

EndOfFile ==
    /\ parse.phase = "reading"
    /\ parse.file = <<>>
    /\ parse' = [parse EXCEPT !.phase = "resolved"]
    /\ UNCHANGED <<index, heap, restored, last, dropped, attributed, nOps, nQueries, analysis,
                   customerCalls, build, history, graph>>

OpenTransactionsFile == \E file \in ParserFileInputs : OpenFile(file)

ParserNext == OpenTransactionsFile \/ ReadLine \/ EndOfFile

SpecParser == InitWith({FALSE}) /\ [][ParserNext]_vars

(* C19: bounded error log with continuation.  When a parseTransactionsNdjson *)
(* call has ended, its error list holds at most MaxErrorLog messages and at  *)
(* most one per malformed record, and every revenue transaction of the file, *)
(* the ones after a malformed line included, was delivered to the callback.  *)
BoundedErrorLogWithContinuation ==
    parse.phase \in {"resolved", "rejected"} =>
        /\ Len(parse.errors) <= MaxErrorLog
        /\ Len(parse.errors) <= parse.malformed
        /\ parse.delivered = parse.expected

(* The part of C19 that the code keeps: the log is capped, and each message  *)
(* answers to one malformed record.                                          *)
ErrorLogBounded ==
    /\ Len(parse.errors) <= MaxErrorLog
    /\ Len(parse.errors) <= parse.malformed

-----------------------------------------------------------------------------
(* buildDashboard of the import page, one action per await                   *)

MaxBuilds == 2

CacheWarning == [text |-> "IndexedDB cache unavailable.", columns |-> <<>>]

BuildFailure == [text |-> "Failed to build index.", columns |-> <<>>]

MissingColumns(missingHeaders) ==
    [text |-> "Missing required columns: ", columns |-> missingHeaders]

RowError(row, text) == [line |-> row, text |-> text]

schemaMismatch_Never(result) == FALSE

(* The test `result.report.missingHeaders.length` *)
schemaMismatch(result) == result.missingHeaders # <<>>

(* Results of parseReferralCodesCsv: a file with every column and one code   *)
(* created by customer c1; a file whose header row is short, for which the   *)
(* parser reports every required header missing and still reads the rows    *)
(* (the header names are written without their accents).                     *)
ReferralCodesResultInputs ==
    { [ codes |-> << [code |-> " X", uses |-> 1, createdBy |-> "c1"] >>,
        errors |-> << RowError(2, "missing code.") >>, missingHeaders |-> <<>> ],
      [ codes |-> << [code |-> "X", uses |-> 1, createdBy |-> "c1"] >>,
        errors |-> <<>>,
        missingHeaders |-> << "Codigo", "Nota", "Usos", "Maximo de usos", "Ativo",
                              "Valido a partir de", "Valido ate", "Esgotado" >> ] }

(* Results of parseCustomersCsv: a file with every column; a file without   *)
(* the Smart Wallet column, whose rows all fail validation.                  *)
CustomersResultInputs ==
    { [ customers |-> << MkCustomer("c1", "w1", "X", Day(10), "n1"),
                         MkCustomer("c2", "w2", "", 0, "") >>,
        errors |-> << RowError(2, "invalid signup date.") >>, missingHeaders |-> <<>> ],
      [ customers |-> <<>>,
        errors |-> << RowError(1, "missing required fields.") >>,
        missingHeaders |-> << "Smart Wallet" >> ] }

TxFileInputs ==
    { << << TxLine(MkTx("w1", Day(11), SwapShape)), Line("noVolume"),
            TxLine(MkTx("w2", Day(12) + 5, PlainShape)) >> >>,
      << << TxLine(MkTx("w1", Day(11), SwapShape)), Line("invalidJson") >>,
         << TxLine(MkTx("w1", Day(50), SwapShape)) >> >>,
      << << TxLine(MkTx("w1", Day(11), SwapShape)), Line("null"),
            TxLine(MkTx("w2", Day(12) + 5, PlainShape)) >> >> }

(* The three inputs of the page; buildCacheKey is a function of their metas *)
BuildFileInputs ==
    { [referralCodes |-> r, customers |-> c, tx |-> t] :
        r \in ReferralCodesResultInputs, c \in CustomersResultInputs, t \in TxFileInputs }

buildCacheKey(files) == files

RECURSIVE AddReferralCodeMetas(_, _)
AddReferralCodeMetas(ix, codes) ==
    IF codes = <<>> THEN ix
    ELSE AddReferralCodeMetas(addReferralCodeMeta(ix, Head(codes)), Tail(codes))

(* ownerWallets: the smart wallet of each code's creator, when the creator  *)
(* is a customer of the file (customers of the model carry no EOA)          *)
RECURSIVE buildOwnerWallets(_, _, _)
buildOwnerWallets(map, codes, ix) ==
    IF codes = <<>> THEN map
    ELSE LET meta == Head(codes)
             owner == MapGet(ix.customersById, meta.createdBy, None)
             next == IF meta.createdBy = "" \/ owner = None \/ owner.smartWallet = ""
                     THEN map
                     ELSE MapSet(map, owner.smartWallet, meta.createdBy)
         IN  buildOwnerWallets(next, Tail(codes), ix)

(* The onRevenueTx callback of buildDashboard, for the delivered records *)
RECURSIVE OnRevenueTxs(_, _, _, _)
OnRevenueTxs(ix, hp, ownerWallets, txs) ==
    IF txs = <<>> THEN [index |-> ix, heap |-> hp]
    ELSE LET tx == Head(txs)
             r == addRevenueTransaction(ix, hp, tx)
             ownerId == MapGet(ownerWallets, tx.wallet, "")
             ix2 == IF ownerId # ""
                    THEN addOwnerUsageDaily(r.index, ownerId, toDateKey(tx.createdAt),
                                            tx.feeUsd, tx.volumeUsd)
                    ELSE r.index
         IN  OnRevenueTxs(ix2, r.heap, ownerWallets, Tail(txs))

BuildHistory ==
    <<restored, last, dropped, attributed, nOps, nQueries, analysis, customerCalls, parse, history, graph>>

(* Build pressed with the three inputs chosen *)
StartBuild(files, keepFullTx) ==
    /\ build.pc \in {"idle", "done"}
    /\ build.builds < MaxBuilds
    /\ build' = [IdleBuild EXCEPT !.pc = "getSnapshot", !.isBuilding = TRUE,
                                  !.store = build.store, !.files = Some(files),
                                  !.keepFullTx = keepFullTx, !.builds = build.builds + 1]
    /\ UNCHANGED <<index, heap, BuildHistory>>

(* await getSnapshot(cacheKey): the store throws, or answers with the       *)
(* snapshot saved under the key, or with nothing                             *)
GetSnapshot(throws) ==
    /\ build.pc = "getSnapshot"
    /\ IF throws
       THEN /\ build' = [build EXCEPT !.pc = "parseReferralCodes", !.storeThrew = TRUE,
                                      !.errors = Append(@, CacheWarning)]
            /\ UNCHANGED <<index, heap>>
       ELSE IF build.store # None /\ build.store[1].key = buildCacheKey(build.files[1])
       THEN /\ index' = deserializeIndex(build.store[1].snapshot, build.store[1].heap)
            /\ heap' = build.store[1].heap
            /\ build' = [build EXCEPT !.pc = "done", !.published = Some("cache")]
       ELSE /\ build' = [build EXCEPT !.pc = "parseReferralCodes"]
            /\ UNCHANGED <<index, heap>>
    /\ UNCHANGED BuildHistory

(* await parseReferralCodesCsv, then the missing-headers test *)
ParseReferralCodes ==
    /\ build.pc = "parseReferralCodes"
    /\ \E result \in {build.files[1].referralCodes} :
         build' = IF schemaMismatch(result)
                  THEN [build EXCEPT !.pc = "done", !.isBuilding = FALSE,
                                     !.referralResult = Some(result),
                                     !.errors = <<MissingColumns(result.missingHeaders)>>
                                                    \o result.errors]
                  ELSE [build EXCEPT !.pc = "parseCustomers", !.referralResult = Some(result)]
    /\ UNCHANGED <<index, heap, BuildHistory>>

(* await parseCustomersCsv, the missing-headers test, and up to the first   *)
(* await of the transactions loop: the index is created and the codes and   *)
(* customers are added                                                       *)
ParseCustomers ==
    /\ build.pc = "parseCustomers"
    /\ \E result \in {build.files[1].customers} :
         IF schemaMismatch(result)
         THEN /\ build' = [build EXCEPT !.pc = "done", !.isBuilding = FALSE,
                                        !.csvResult = Some(result),
                                        !.errors = <<MissingColumns(result.missingHeaders)>>
                                                       \o result.errors]
              /\ UNCHANGED <<index, heap>>
         ELSE \E codes \in {build.referralResult[1].codes} :
              \E r \in {AddCustomers(
                          AddReferralCodeMetas(
                              createAnalyticsIndex([keepFullTx |-> build.keepFullTx,
                                                    maxStoredTxs |-> MaxStoredTxs]),
                              codes),
                          <<>>, result.customers)} :
                 /\ index' = r.index
                 /\ heap' = r.heap
                 /\ build' = [build EXCEPT
                                 !.pc = "parseTransactions", !.csvResult = Some(result),
                                 !.created = TRUE,
                                 !.apiCalls = Len(codes) + Len(result.customers),
                                 !.ownerWallets = buildOwnerWallets(<<>>, codes, r.index),
                                 !.txFiles = build.files[1].tx]
    /\ UNCHANGED BuildHistory

(* await parseTransactionsNdjson(file, ...) for the next file; after the    *)
(* last file, up to await saveSnapshot                                       *)
ParseTransactionsFile ==
    /\ build.pc = "parseTransactions"
    /\ build.txFiles # <<>>
    /\ \E p \in {parseTransactionsNdjson(Head(build.txFiles))} :
       \E r \in {OnRevenueTxs(index, heap, build.ownerWallets, p.delivered)} :
       \E calls \in {build.apiCalls + Len(p.delivered)} :
         /\ heap' = r.heap
         /\ IF p.phase = "rejected"
            THEN /\ index' = r.index
                 /\ build' = [build EXCEPT !.pc = "done", !.isBuilding = FALSE,
                                           !.parseThrew = TRUE, !.apiCalls = calls,
                                           !.errors = Append(@, BuildFailure)]
            ELSE IF Len(build.txFiles) > 1
            THEN /\ index' = r.index
                 /\ build' = [build EXCEPT !.txFiles = Tail(@), !.apiCalls = calls,
                                           !.ndjsonLines = @ + p.lines,
                                           !.ndjsonErrors = @ \o p.errors]
            ELSE /\ index' = [r.index EXCEPT !.totals.txLines = build.ndjsonLines + p.lines]
                 /\ build' = [build EXCEPT
                                 !.pc = "saveSnapshot", !.txFiles = <<>>, !.apiCalls = calls,
                                 !.ndjsonLines = @ + p.lines,
                                 !.ndjsonErrors = @ \o p.errors,
                                 !.errors = @ \o build.referralResult[1].errors
                                              \o build.csvResult[1].errors
                                              \o build.ndjsonErrors \o p.errors]
    /\ UNCHANGED BuildHistory

(* await saveSnapshot(cacheKey, serializeIndex(index)): the store takes the *)
(* snapshot, or throws and the catch of the build takes over                 *)
SaveSnapshot(throws) ==
    /\ build.pc = "saveSnapshot"
    /\ build' = IF throws
                THEN [build EXCEPT !.pc = "done", !.isBuilding = FALSE, !.storeThrew = TRUE,
                                   !.errors = Append(@, BuildFailure)]
                ELSE [build EXCEPT !.pc = "done", !.isBuilding = FALSE, !.saved = TRUE,
                                   !.published = Some("fresh"),
                                   !.store = Some([key |-> buildCacheKey(build.files[1]),
                                                   snapshot |-> serializeIndex(index),
                                                   heap |-> heap])]
    /\ UNCHANGED <<index, heap, BuildHistory>>

PressBuild == \E files \in BuildFileInputs, keepFullTx \in BOOLEAN : StartBuild(files, keepFullTx)

AwaitGetSnapshot == \E throws \in BOOLEAN : GetSnapshot(throws)

AwaitSaveSnapshot == \E throws \in BOOLEAN : SaveSnapshot(throws)

BuildNext ==
    \/ PressBuild
    \/ AwaitGetSnapshot
    \/ ParseReferralCodes
    \/ ParseCustomers
    \/ ParseTransactionsFile
    \/ AwaitSaveSnapshot

SpecBuild == InitWith({FALSE}) /\ [][BuildNext]_vars

(* The build in progress met a CSV whose parser reported missing headers *)
MissingHeadersReported ==
    \/ build.referralResult # None /\ build.referralResult[1].missingHeaders # <<>>
    \/ build.csvResult # None /\ build.csvResult[1].missingHeaders # <<>>

ReportedMissingHeaders ==
    IF build.referralResult # None /\ build.referralResult[1].missingHeaders # <<>>
    THEN build.referralResult[1].missingHeaders
    ELSE build.csvResult[1].missingHeaders

(* C15: cache unavailable.  A build that has ended, in which the snapshot    *)
(* store threw (on getSnapshot or on saveSnapshot) and nothing else went     *)
(* wrong (no missing headers, no parser failure), has built a fresh index,   *)
(* published it through setIndex, and left a message in the error list.      *)
CacheUnavailable ==
    (/\ build.pc = "done"
     /\ build.storeThrew
     /\ ~MissingHeadersReported
     /\ ~build.parseThrew)
    => /\ build.created
       /\ build.published = Some("fresh")
       /\ build.errors # <<>>

(* The half of C15 that the code keeps: a getSnapshot that throws is only a  *)
(* warning, the build goes on to parse the files.                            *)
GetSnapshotFailureIsWarning ==
    (build.storeThrew /\ build.pc \in {"parseReferralCodes", "parseCustomers",
                                       "parseTransactions", "saveSnapshot"})
    => CacheWarning = Head(build.errors)

(* C16: schema mismatch.  Once the referral-codes CSV or the customers CSV   *)
(* has reported missing headers, the build is over: no index was created,    *)
(* no addReferralCodeMeta, addCustomer or addRevenueTransaction call was     *)
(* made, nothing was published or saved, and the error list starts with the  *)
(* message that names the missing columns.                                   *)
SchemaMismatchAborts ==
    MissingHeadersReported =>
        /\ build.pc = "done"
        /\ ~build.isBuilding
        /\ ~build.created
        /\ build.apiCalls = 0
        /\ build.published = None
        /\ ~build.saved
        /\ build.errors # <<>>
        /\ Head(build.errors) = MissingColumns(ReportedMissingHeaders)

(* A build that passed the referral-codes CSV and stopped at a customers    *)
(* CSV without its Smart Wallet column, after the store had thrown          *)
SchemaMismatchWitness ==
    /\ build.pc = "done"
    /\ build.storeThrew
    /\ build.referralResult # None
    /\ build.referralResult[1].missingHeaders = <<>>
    /\ build.csvResult # None
    /\ build.csvResult[1].missingHeaders = << "Smart Wallet" >>
    /\ build.errors = << MissingColumns(<< "Smart Wallet" >>),
                         RowError(1, "missing required fields.") >>

-----------------------------------------------------------------------------
(* Ingestion with its history: the addCustomer and addRevenueTransaction     *)
(* calls in the order they were made, against which the index is compared    *)

MaxHistoryOps == 4

FeeTenShape ==
    [ feeUsd |-> 10, volumeUsd |-> 100, category |-> "DEPOSIT", tokens |-> << >>,
      swapFlow |-> None, hash |-> "0xb" ]

(* Two customers of code X (one written with a leading blank), one of them   *)
(* signed up on the last day of the first range; a customer of code Y whose  *)
(* signup date does not parse.  A customer may be registered twice.          *)
HistoryCustomerInputs ==
    { MkCustomer("c1", "w1", "X", Day(10), "n1"),
      MkCustomer("c2", "w2", " X", Day(12) + 3, ""),
      MkCustomer("c3", "w3", "Y", 0, "") }

HistoryTxInputs ==
    { MkTx("w1", Day(11), FeeTenShape),
      MkTx("w1", Day(50), SwapShape),
      MkTx("w2", Day(12) + 5, PlainShape) }

HistoryCodeInputs == {"all", "X", "Y"}

HistoryRangeInputs ==
    { [start |-> 10, end |-> 12], [start |-> 12, end |-> 60], [start |-> 40, end |-> 60] }

HistoryCustomer ==
    /\ nQueries = 0
    /\ nOps < MaxHistoryOps
    /\ \E customer \in HistoryCustomerInputs : AddCustomer(customer)

HistoryTx ==
    /\ nQueries = 0
    /\ nOps < MaxHistoryOps
    /\ \E tx \in HistoryTxInputs : AddRevenueTransaction(tx)

HistoryMetrics ==
    /\ nQueries = 0
    /\ \E code \in HistoryCodeInputs, range \in HistoryRangeInputs :
         Query("getReferralMetrics", code, range, getReferralMetrics(index, heap, code, range))

HistoryNext == HistoryCustomer \/ HistoryTx \/ HistoryMetrics

HistoryInit ==
    /\ index = createAnalyticsIndex([keepFullTx |-> FALSE, maxStoredTxs |-> MaxStoredTxs])
    /\ heap = <<>>
    /\ restored = None
    /\ last = [kind |-> "createAnalyticsIndex"]
    /\ dropped = <<>>
    /\ attributed = <<>>
    /\ nOps = 0
    /\ nQueries = 0
    /\ analysis = IdleAnalysis
    /\ customerCalls = NoCustomerCalls
    /\ parse = IdleParse
    /\ build = IdleBuild
    /\ history = [NoHistory EXCEPT !.recording = TRUE]
    /\ graph = IdleGraph

SpecHistory == HistoryInit /\ [][HistoryNext]_vars

(* What the history says, without looking at the index *)

IsCustomerCall(i) == history.calls[i].kind = "addCustomer"

IsTxCall(i) == history.calls[i].kind = "addRevenueTransaction"

CustomerCallsOf == { i \in 1..Len(history.calls) : IsCustomerCall(i) }

TxCallsOf == { i \in 1..Len(history.calls) : IsTxCall(i) }

(* The addCustomer call that registered the wallet last before call i, or 0 *)
RegistrationBefore(i, wallet) ==
    LET earlier == { j \in CustomerCallsOf :
                        j < i /\ history.calls[j].arg.smartWallet = wallet }
    IN  IF earlier = {} THEN 0 ELSE CHOOSE j \in earlier : \A k \in earlier : k <= j

CodeMatches(referral, code) == code = "all" \/ ReferralKey(referral) = ReferralKey(code)

(* The transaction of call i was applied while its wallet was registered     *)
(* under the code                                                            *)
AttributedTo(i, code) ==
    /\ IsTxCall(i)
    /\ \E j \in {RegistrationBefore(i, history.calls[i].arg.wallet)} :
          j # 0 /\ CodeMatches(history.calls[j].arg.referral, code)

SumOver(set, F(_)) ==
    LET RECURSIVE Sum(_)
        Sum(S) == IF S = {} THEN 0 ELSE LET x == CHOOSE y \in S : TRUE IN F(x) + Sum(S \ {x})
    IN  Sum(set)

CustomersThenTransactions ==
    \A i \in CustomerCallsOf, j \in TxCallsOf : i < j

DistinctWallets ==
    \A i, j \in CustomerCallsOf :
        history.calls[i].arg.smartWallet = history.calls[j].arg.smartWallet => i = j

InRange(day, range) == range.start <= day /\ day <= range.end

ReferenceSignups(code, range) ==
    Cardinality({ i \in CustomerCallsOf :
                    /\ CodeMatches(history.calls[i].arg.referral, code)
                    /\ history.calls[i].arg.signupAt # 0
                    /\ InRange(history.calls[i].arg.signupAt \div DAY_MS, range) })

ReferenceFeeUsd(code, range) ==
    SumOver({ i \in TxCallsOf : AttributedTo(i, code)
                                  /\ InRange(history.calls[i].arg.createdAt \div DAY_MS, range) },
            LAMBDA i : history.calls[i].arg.feeUsd)

ReferenceVolumeUsd(code, range) ==
    SumOver({ i \in TxCallsOf : AttributedTo(i, code)
                                  /\ InRange(history.calls[i].arg.createdAt \div DAY_MS, range) },
            LAMBDA i : history.calls[i].arg.volumeUsd)

(* The customers of the code whose window, from the first transaction       *)
(* applied for the wallet to the last one, overlaps the range               *)
ReferenceUsersWithRevenueTx(code, range) ==
    Cardinality({ c \in CustomerCallsOf :
        /\ CodeMatches(history.calls[c].arg.referral, code)
        /\ LET txs == { i \in TxCallsOf :
                          history.calls[i].arg.wallet = history.calls[c].arg.smartWallet }
           IN  /\ txs # {}
               /\ LET first == CHOOSE i \in txs : \A k \in txs : i <= k
                      final == CHOOSE i \in txs : \A k \in txs : k <= i
                  IN  /\ history.calls[first].arg.createdAt <= range.end * DAY_MS + DAY_MS - 1
                      /\ history.calls[final].arg.createdAt >= range.start * DAY_MS })

MatchesReference(m, code, range) ==
    /\ m.signups = ReferenceSignups(code, range)
    /\ m.feeUsd = ReferenceFeeUsd(code, range)
    /\ m.volumeUsd = ReferenceVolumeUsd(code, range)
    /\ m.usersWithRevenueTx = ReferenceUsersWithRevenueTx(code, range)

(* C17: metrics against a reference.  After addCustomer calls with distinct  *)
(* wallets followed by addRevenueTransaction calls, getReferralMetrics       *)
(* returns, for every code and range, the signups, fee, volume and users     *)
(* with a revenue transaction that the history of the calls gives; one       *)
(* customer signed up in range with one in-range transaction of fee 10       *)
(* gives signups 1, usersWithRevenueTx 1, feeUsd 10 and conversionRate 1.    *)
MetricsMatchReference ==
    (CustomersThenTransactions /\ DistinctWallets) =>
        /\ \A code \in HistoryCodeInputs, range \in HistoryRangeInputs :
              MatchesReference(getReferralMetrics(index, heap, code, range), code, range)
        /\ last.kind = "getReferralMetrics" =>
              MatchesReference(last.result, last.code, last.range)
        /\ (/\ last.kind = "getReferralMetrics"
            /\ history.calls = << Call("addCustomer", MkCustomer("c1", "w1", "X", Day(10), "n1")),
                                  Call("addRevenueTransaction", MkTx("w1", Day(11), FeeTenShape)) >>
            /\ last.code = "X"
            /\ last.range = [start |-> 10, end |-> 12])
           => /\ last.result.signups = 1
              /\ last.result.usersWithRevenueTx = 1
              /\ last.result.feeUsd = 10
              /\ last.result.conversionRate = Num(1)

(* The example of C17 has been measured *)
MetricsMatchReferenceWitness ==
    /\ last.kind = "getReferralMetrics"
    /\ last.code = "X"
    /\ last.range = [start |-> 10, end |-> 12]
    /\ history.calls = << Call("addCustomer", MkCustomer("c1", "w1", "X", Day(10), "n1")),
                          Call("addRevenueTransaction", MkTx("w1", Day(11), FeeTenShape)) >>
    /\ last.result.signups = 1
    /\ last.result.feeUsd = 10

(* The transactions applied before their wallet was registered *)
AppliedBeforeRegistration ==
    { i \in TxCallsOf : RegistrationBefore(i, history.calls[i].arg.wallet) = 0 }

(* C18: ingestion order matters for attribution.  A transaction applied      *)
(* before addCustomer registers its wallet is counted in                     *)
(* totals.unattributedTxCount and stays there; the UserAggregate that a      *)
(* registration creates starts with txCount 0; the feeUsdTotal of a code is  *)
(* the sum over the transactions applied after the registration of their     *)
(* wallet under that code, so a registration leaves it as it was.            *)
IngestionOrderMatters ==
    /\ index.totals.unattributedTxCount = Cardinality(AppliedBeforeRegistration)
    /\ \A code \in {"X", "Y"} :
          Referral(index, code).feeUsdTotal
              = SumOver({ i \in TxCallsOf : AttributedTo(i, code) },
                        LAMBDA i : history.calls[i].arg.feeUsd)
    /\ last.kind = "addCustomer" =>
          /\ heap # <<>>
          /\ heap[Len(heap)].txCount = 0
          /\ heap[Len(heap)].feeUsd = 0
          /\ heap[Len(heap)].firstRevenueTxAt = None

(* A transaction of w1, then the registration of w1 under X, then a second  *)
(* transaction of w1: only the second one has reached X                     *)
IngestionOrderMattersWitness ==
    /\ history.calls = << Call("addRevenueTransaction", MkTx("w1", Day(11), FeeTenShape)),
                          Call("addCustomer", MkCustomer("c1", "w1", "X", Day(10), "n1")),
                          Call("addRevenueTransaction", MkTx("w1", Day(50), SwapShape)) >>
    /\ index.totals.unattributedTxCount = 1
    /\ Referral(index, "X").feeUsdTotal = SwapShape.feeUsd
    /\ heap[1].txCount = 1

(* The wallets with a transaction applied while registered under the code *)
WalletsWithAttributedTx(code) ==
    { history.calls[i].arg.wallet : i \in { j \in TxCallsOf : AttributedTo(j, code) } }

(* C20: the first-revenue bucket counts each wallet once.  For every code,   *)
(* the sum of firstRevenueTxByDate over all dates is the number of wallets   *)
(* of the code with at least one attributed transaction.                     *)
FirstRevenueCountsWalletOnce ==
    \A code \in {"X", "Y"} :
        SumSeq(MapValues(Referral(index, code).firstRevenueTxByDate))
            = Cardinality(WalletsWithAttributedTx(code))

-----------------------------------------------------------------------------
(* Retention of a wallet                                                     *)

(* The UserAggregate of a wallet, as addRevenueTransaction finds it *)
UserAggOf(ix, hp, wallet) == hp[MapGet(ix.usersByWallet, wallet, 0)]

RegisteredWallets(ix) == MapKeys(ix.usersByWallet)

(* C21: retainedWithin30d is a one-way flag.  An addRevenueTransaction call  *)
(* never takes a UserAggregate whose retainedWithin30d is true to one where  *)
(* it is false.                                                              *)
RetainedIsOneWay ==
    [][ last'.kind = "addRevenueTransaction" =>
          /\ Len(heap') = Len(heap)
          /\ \A i \in 1..Len(heap) : heap[i].retainedWithin30d => heap'[i].retainedWithin30d
          /\ \A w \in RegisteredWallets(index) :
                UserAggOf(index, heap, w).retainedWithin30d
                    => UserAggOf(index', heap', w).retainedWithin30d ]_vars

(* A wallet was retained by its second transaction, and a third one, more   *)
(* than 30 days after the first, has been applied since                      *)
RetainedIsOneWayWitness ==
    /\ last.kind = "addRevenueTransaction"
    /\ \E w \in RegisteredWallets(index) :
          /\ UserAggOf(index, heap, w).retainedWithin30d
          /\ UserAggOf(index, heap, w).txCount = 3
          /\ UserAggOf(index, heap, w).lastRevenueTxAt[1]
                - UserAggOf(index, heap, w).firstRevenueTxAt[1] > 30 * DAY_MS

(* The last addCustomer call for the wallet *)
LastRegistration(wallet) == RegistrationBefore(Len(history.calls) + 1, wallet)

(* The transactions applied to the wallet's UserAggregate: those of the     *)
(* wallet since its last registration                                        *)
TxsOfUserAgg(wallet) ==
    { i \in TxCallsOf : /\ history.calls[i].arg.wallet = wallet
                        /\ LastRegistration(wallet) # 0
                        /\ i > LastRegistration(wallet) }

FirstIngested(wallet) == CHOOSE i \in TxsOfUserAgg(wallet) : \A k \in TxsOfUserAgg(wallet) : i <= k

(* Some transaction other than the first-ingested one lies no more than 30  *)
(* days after it                                                             *)
RetainedByHistory(wallet) ==
    /\ TxsOfUserAgg(wallet) # {}
    /\ \E i \in TxsOfUserAgg(wallet) \ {FirstIngested(wallet)} :
          history.calls[i].arg.createdAt - history.calls[FirstIngested(wallet)].arg.createdAt
              <= 30 * DAY_MS

-----------------------------------------------------------------------------
(* Further properties of the propagation analysis                            *)

(* One call buildDescendantStats(code, map, cache) run to its return *)
RECURSIVE RunStats(_)
RunStats(a) ==
    IF a.frames = <<>> THEN a
    ELSE LET frame == a.frames[Len(a.frames)]
         IN  IF frame.next <= Len(MapGet(a.map, frame.code, <<>>))
             THEN RunStats(VisitChildStats(a))
             ELSE RunStats(LeaveStats(a))

(* What buildDescendantStats(code, map, new Map()) returns *)
FreshStats(map, code) ==
    LET a == RunStats(EnterStats([IdleAnalysis EXCEPT !.map = map], code))
    IN  MapGet(a.cache, code, [total |-> 0, maxDepth |-> 0])

(* The codes reachable from a set of codes through parent -> child edges *)
RECURSIVE Reach(_, _)
Reach(map, seen) ==
    LET next == seen \cup UNION { ChildCodes(map, c) : c \in seen }
    IN  IF next = seen THEN seen ELSE Reach(map, next)

Descendants(map, code) ==
    IF ChildCodes(map, code) = {} THEN {} ELSE Reach(map, ChildCodes(map, code))

Acyclic(map) == \A code \in MapCodes(map) : code \notin Descendants(map, code)

(* The length of the longest chain below a code of an acyclic map *)
RECURSIVE Height(_, _)
Height(map, code) ==
    IF ChildCodes(map, code) = {} THEN 0
    ELSE LET below == { Height(map, c) : c \in ChildCodes(map, code) }
         IN  1 + CHOOSE h \in below : \A k \in below : k <= h

(* A cycle and nothing else: every code has one child and reaches them all *)
PureCycle(map) ==
    /\ map # <<>>
    /\ \A code \in MapCodes(map) :
          /\ Cardinality(ChildCodes(map, code)) = 1
          /\ Len(MapGet(map, code, <<>>)) = 1
          /\ Descendants(map, code) = MapCodes(map)

(* The code of the first call the descendantCache memo makes *)
FirstQueried ==
    IF index.referralCodes # <<>> THEN index.referralCodes[1][2].code ELSE analysis.code

BackEdgeNext ==
    LET frame == analysis.frames[Len(analysis.frames)]
    IN  /\ analysis.phase = "running"
        /\ analysis.frames # <<>>
        /\ frame.next <= Len(MapGet(analysis.map, frame.code, <<>>))
        /\ MapGet(analysis.map, frame.code, <<>>)[frame.next].code \in analysis.stack

(* C23: the cycle break rule.  When the traversal of a code meets a child    *)
(* that is on the traversal stack, no call is made for the child and the     *)
(* branch adds nothing to the total and the maxDepth of the code; for a pure *)
(* cycle of n codes, the first code queried (with an empty cache) gets the   *)
(* stats of the chain of the n - 1 other codes.                              *)
CycleBreakRule ==
    /\ [][ BackEdgeNext =>
             /\ Len(analysis'.frames) = Len(analysis.frames)
             /\ analysis'.stack = analysis.stack
             /\ analysis'.cache = analysis.cache
             /\ analysis'.frames[Len(analysis.frames)]
                   = [analysis.frames[Len(analysis.frames)] EXCEPT !.next = @ + 1] ]_vars
    /\ [](  (PureCycle(analysis.map) /\ MapHas(analysis.cache, FirstQueried)
                /\ FirstQueried \in MapCodes(analysis.map))
            => MapGet(analysis.cache, FirstQueried, <<>>)
                  = [ total |-> Cardinality(MapCodes(analysis.map)) - 1,
                      maxDepth |-> Cardinality(MapCodes(analysis.map)) - 1 ] )

(* The pure cycle A -> B -> C -> A with B queried first: B gets {2, 2} *)
CycleBreakRuleWitness ==
    /\ analysis.phase = "done"
    /\ PureCycle(analysis.map)
    /\ MapCodes(analysis.map) = {"A", "B", "C"}
    /\ FirstQueried = "B"
    /\ MapGet(analysis.cache, "B", <<>>) = [total |-> 2, maxDepth |-> 2]

(* C24: descendant stats on acyclic data.  When the creation graph has no    *)
(* cycle, the stats of every code are the number of codes reachable from it  *)
(* and the length of the longest chain below it; a code without children     *)
(* has {total: 0, maxDepth: 0}.                                              *)
AcyclicDescendantStats ==
    Acyclic(analysis.map) =>
        \A i \in 1..Len(analysis.cache) :
            LET code == analysis.cache[i][1]
                stats == analysis.cache[i][2]
            IN  /\ stats.total = Cardinality(Descendants(analysis.map, code))
                /\ stats.maxDepth = Height(analysis.map, code)
                /\ ChildCodes(analysis.map, code) = {}
                      => stats = [total |-> 0, maxDepth |-> 0]

(* The chain A -> B -> C analysed to the end, on the page of A *)
AcyclicDescendantStatsWitness ==
    /\ analysis.phase = "done"
    /\ Acyclic(analysis.map)
    /\ analysis.code = "A"
    /\ ChildCodes(analysis.map, "A") = {"B"}
    /\ ChildCodes(analysis.map, "B") = {"C"}
    /\ MapGet(analysis.cache, "A", <<>>) = [total |-> 2, maxDepth |-> 2]
    /\ MapGet(analysis.cache, "C", <<>>) = [total |-> 0, maxDepth |-> 0]

(* C26: descendant stats do not depend on the query order.  The stats the    *)
(* shared cache holds for a code, whatever calls filled it, are the stats    *)
(* buildDescendantStats returns for that code with an empty cache.           *)
StatsIndependentOfOrder ==
    \A i \in 1..Len(analysis.cache) :
        analysis.cache[i][2] = FreshStats(analysis.map, analysis.cache[i][1])

-----------------------------------------------------------------------------
(* Further properties of the query engine                                    *)

(* The volume of the links that touch the node at a 0-based index *)
IncidentVolume(data, k) ==
    SumSeq([i \in 1..Len(data.links) |->
              (IF data.links[i].source = k THEN data.links[i].value ELSE 0)
              + (IF data.links[i].target = k THEN data.links[i].value ELSE 0)])

WellFormedSankey(data, limit) ==
    /\ Len(data.links) <= limit
    /\ \A i \in 1..Len(data.links) :
          LET link == data.links[i] IN
          /\ link.source \in 0..(Len(data.nodes) - 1)
          /\ link.target \in 0..(Len(data.nodes) - 1)
          /\ data.nodes[link.source + 1].name[2] = "(out)"
          /\ data.nodes[link.target + 1].name[2] = "(in)"
          /\ link.source # link.target
    /\ \A j, k \in 1..Len(data.nodes) :
          j < k => IncidentVolume(data, j - 1) >= IncidentVolume(data, k - 1)

(* C25: the swap Sankey is bipartite and well-indexed.  For every index,     *)
(* code, range and limit, getSwapFlowSankeyData returns at most limit links; *)
(* the source and target of every link are indices into nodes, of a node     *)
(* whose name ends with '(out)' and of one whose name ends with '(in)', and  *)
(* differ; the nodes are in descending order of incident volume.             *)
SankeyBipartite ==
    /\ \A code \in QueryCodeInputs, range \in QueryRangeInputs, limit \in QueryLimitInputs :
          WellFormedSankey(getSwapFlowSankeyData(index, code, range, limit), limit)
    /\ last.kind = "getSwapFlowSankeyData" =>
          \E limit \in QueryLimitInputs :
              /\ last.result = getSwapFlowSankeyData(index, last.code, last.range, limit)
              /\ WellFormedSankey(last.result, limit)

(* A Sankey with the swap of a token for itself: USDC (out) and USDC (in)   *)
(* are two nodes; USDC (in), which also receives the swap of ETH, is first  *)
SankeyBipartiteWitness ==
    /\ last.kind = "getSwapFlowSankeyData"
    /\ Len(last.result.links) = 2
    /\ Len(last.result.nodes) = 3
    /\ last.result.nodes[1].name = <<"USDC", "(in)">>
    /\ last.result.nodes[2].name = <<"USDC", "(out)">>
    /\ last.result.nodes[3].name = <<"ETH", "(out)">>

-----------------------------------------------------------------------------
(* Further properties of ingestion with its history                          *)

UserAggsOf(r, hp) == [i \in 1..Len(r.users) |-> hp[r.users[i][2]]]

(* C27: per-user sums match the aggregate.  After any sequence of            *)
(* addCustomer and addRevenueTransaction calls, for every code the sum of    *)
(* feeUsd, and of revenueTxCount, over the UserAggregates of the code's      *)
(* users map equals the code's feeUsdTotal, and revenueTxCount.              *)
UserSumsMatchAggregate ==
    \A i \in 1..Len(index.referrals) :
        LET r == index.referrals[i][2]
            users == UserAggsOf(r, heap)
        IN  /\ SumSeq([k \in 1..Len(users) |-> users[k].feeUsd]) = r.feeUsdTotal
            /\ SumSeq([k \in 1..Len(users) |-> users[k].revenueTxCount]) = r.revenueTxCount

(* No wallet was registered again after one of its transactions was applied *)
NoRegistrationAfterTx ==
    \A c \in CustomerCallsOf, t \in TxCallsOf :
        (t < c /\ history.calls[t].arg.wallet = history.calls[c].arg.smartWallet)
            => RegistrationBefore(t, history.calls[t].arg.wallet) = 0

(* Where C27 holds: the sums match as long as no registration replaced a     *)
(* UserAggregate that had transactions                                       *)
UserSumsMatchWithoutReplacement == NoRegistrationAfterTx => UserSumsMatchAggregate

IsProportion(rate) == rate.kind = "number" /\ 0 <= rate.num /\ rate.num <= rate.den

(* C28: kycRate and retention30d are proportions.  For every reachable       *)
(* index, code and range, getReferralMetrics has kycUsers <= signups and     *)
(* retained users <= usersWithRevenueTx, so both rates lie between 0 and 1.  *)
RatesAreProportions ==
    \A code \in HistoryCodeInputs, range \in HistoryRangeInputs :
        LET m == getReferralMetrics(index, heap, code, range)
            loop == metricsUsers(index, heap, code, range)
        IN  /\ 0 <= m.kycUsers /\ m.kycUsers <= m.signups
            /\ 0 <= loop.retainedUsers /\ loop.retainedUsers <= m.usersWithRevenueTx
            /\ IsProportion(m.kycRate)
            /\ IsProportion(m.retention30d)

(* Two signups of X in range, one of them with a KYC; one user with revenue, *)
(* retained                                                                  *)
RatesAreProportionsWitness ==
    /\ last.kind = "getReferralMetrics"
    /\ last.code = "X"
    /\ last.result.signups = 2
    /\ last.result.kycRate = Divide(1, 2)
    /\ last.result.usersWithRevenueTx = 1
    /\ last.result.retention30d = Num(1)

(* C29 as stated: conversionRate is a proportion.  For every reachable       *)
(* index, code and range, usersWithRevenueTx <= signups whenever             *)
(* signups > 0, so conversionRate never exceeds 1.                           *)
ConversionRateIsProportion ==
    \A code \in HistoryCodeInputs, range \in HistoryRangeInputs :
        LET m == getReferralMetrics(index, heap, code, range)
        IN  m.signups > 0 =>
                /\ m.usersWithRevenueTx <= m.signups
                /\ IsProportion(m.conversionRate)

(* Every customer registered under the code signed up inside the range *)
SignupsAllInRange(code, range) ==
    \A c \in CustomerCallsOf :
        CodeMatches(history.calls[c].arg.referral, code)
            => /\ history.calls[c].arg.signupAt # 0
               /\ InRange(history.calls[c].arg.signupAt \div DAY_MS, range)

(* C29 as amended: conversionRate is usersWithRevenueTx / signups, 0 without *)
(* signups, and never negative; it is a proportion for a range that holds    *)
(* the signup date of every customer registered under the code.              *)
ConversionRateBounded ==
    \A code \in HistoryCodeInputs, range \in HistoryRangeInputs :
        LET m == getReferralMetrics(index, heap, code, range)
        IN  /\ m.conversionRate.kind = "number"
            /\ m.conversionRate.num >= 0
            /\ m.signups = 0 => m.conversionRate = Num(0)
            /\ m.signups > 0 =>
                  m.conversionRate.num * m.signups = m.usersWithRevenueTx * m.conversionRate.den
            /\ (SignupsAllInRange(code, range) /\ m.signups > 0) =>
                  /\ m.usersWithRevenueTx <= m.signups
                  /\ IsProportion(m.conversionRate)

(* Both customers of X signed up in range and one of them has revenue *)
ConversionRateBoundedWitness ==
    /\ last.kind = "getReferralMetrics"
    /\ last.code = "X"
    /\ SignupsAllInRange(last.code, last.range)
    /\ last.result.signups = 2
    /\ last.result.usersWithRevenueTx = 1
    /\ last.result.conversionRate = Divide(1, 2)

-----------------------------------------------------------------------------
(* The propagation graph of the referral detail page.  buildPropagationGraph *)
(* walks the propagation map breadth first from the root code; a state of    *)
(* the walk is taken before each turn of the while loop and before each      *)
(* call of the forEach callback.  A node keeps its level and its place in    *)
(* the level, of which x and y are fixed multiples; `expanded` records the   *)
(* codes whose children were laid out, with their depth and how many.        *)

GRAPH_MAX_DEPTH == 3
GRAPH_MAX_CHILDREN == 6
GRAPH_MAX_NODES == 60

sumSignups(referral) == SumSeq(MapValues(referral.signupsByDate))

(* referral ? sumSignups(referral) : 0 for index.referrals.get(code) *)
SignupsOfCode(ix, code) ==
    IF MapHas(ix.referrals, code) THEN sumSignups(MapGet(ix.referrals, code, <<>>)) ELSE 0

RefId(code) == <<"ref", code>>
UserId(creatorId) == <<"user", creatorId>>

(* addNode(id, label, type, level, value): nothing for an id already there *)
addNode(nodes, id, label, type, level, value) ==
    IF \E i \in 1..Len(nodes) : nodes[i].id = id THEN nodes
    ELSE Append(nodes, [ id |-> id, label |-> label, type |-> type, level |-> level,
                         levelIndex |-> Cardinality({i \in 1..Len(nodes) : nodes[i].level = level}),
                         value |-> value ])

(* children.slice().sort(by signups, largest first).slice(0, GRAPH_MAX_CHILDREN) *)
sortedChildren(ix, children) ==
    LET keyed == [i \in 1..Len(children) |->
                     [k1 |-> SignupsOfCode(ix, children[i].code), k2 |-> 0, v |-> children[i]]]
        sorted == Unkeyed(SortKeyed(keyed))
    IN  SubSeq(sorted, 1, Min(Len(sorted), GRAPH_MAX_CHILDREN))

(* buildPropagationGraph(rootCode, map, index) up to its while loop *)
OpenGraph(rootCode) ==
    /\ graph.phase = "idle"
    /\ graph' = [IdleGraph EXCEPT
                    !.phase = "loop",
                    !.root = rootCode,
                    !.map = buildPropagationMap(index),
                    !.nodes = addNode(<<>>, RefId(rootCode), rootCode, "referral", 0,
                                      <<SignupsOfCode(index, rootCode)>>),
                    !.queue = <<[code |-> rootCode, depth |-> 0]>>,
                    !.visited = {rootCode}]
    /\ last' = [kind |-> "buildPropagationGraph"]
    /\ UNCHANGED <<index, heap, restored, dropped, attributed, nOps, nQueries, analysis,
                   customerCalls, parse, build, history>>

(* A turn of the while loop: queue.shift(), the two `continue`s, the sort *)
GraphShift ==
    /\ graph.phase = "loop"
    /\ graph.queue # <<>>
    /\ Len(graph.nodes) < GRAPH_MAX_NODES
    /\ LET current == Head(graph.queue)
           children == MapGet(graph.map, current.code, <<>>)
           shifted == [graph EXCEPT !.queue = Tail(@), !.current = current]
       IN  graph' =
             IF current.depth >= GRAPH_MAX_DEPTH THEN shifted
             ELSE IF children = <<>> THEN shifted
             ELSE LET sorted == sortedChildren(index, children)
                  IN  [shifted EXCEPT
                          !.phase = "children",
                          !.children = sorted,
                          !.expanded = Append(@, [code |-> current.code,
                                                  depth |-> current.depth,
                                                  children |-> Len(sorted)])]
    /\ UNCHANGED <<index, heap, restored, last, dropped, attributed, nOps, nQueries, analysis,
                   customerCalls, parse, build, history>>

(* One call of the forEach callback, on the next of sortedChildren *)
GraphChild ==
    /\ graph.phase = "children"
    /\ LET child == Head(graph.children)
           current == graph.current
           referralLevel == current.depth * 2
           userLevel == referralLevel + 1
           childLevel == referralLevel + 2
           parentId == RefId(current.code)
           userId == UserId(child.creatorId)
           childId == RefId(child.code)
           withUser == addNode(graph.nodes, userId,
                               IF child.creatorLabel # "" THEN child.creatorLabel
                               ELSE child.creatorId,
                               "user", userLevel, <<>>)
           withChild == addNode(withUser, childId, child.code, "referral", childLevel,
                                <<SignupsOfCode(index, child.code)>>)
           next == [graph EXCEPT
                       !.children = Tail(@),
                       !.phase = IF Tail(graph.children) = <<>> THEN "loop" ELSE "children"]
       IN  graph' =
             IF Len(graph.nodes) >= GRAPH_MAX_NODES THEN next
             ELSE [next EXCEPT
                      !.nodes = withChild,
                      !.edges = @ \o << [from |-> parentId, to |-> userId],
                                        [from |-> userId, to |-> childId] >>,
                      !.visited = @ \cup {child.code},
                      !.queue = IF child.code \in graph.visited THEN @
                                ELSE Append(@, [code |-> child.code,
                                                depth |-> current.depth + 1])]
    /\ UNCHANGED <<index, heap, restored, last, dropped, attributed, nOps, nQueries, analysis,
                   customerCalls, parse, build, history>>

(* The while condition fails: the layout is returned *)
GraphReturn ==
    /\ graph.phase = "loop"
    /\ graph.queue = <<>> \/ Len(graph.nodes) >= GRAPH_MAX_NODES
    /\ graph' = [graph EXCEPT !.phase = "done"]
    /\ last' = [kind |-> "buildPropagationGraph",
                result |-> [nodes |-> graph.nodes, edges |-> graph.edges]]
    /\ UNCHANGED <<index, heap, restored, dropped, attributed, nOps, nQueries, analysis,
                   customerCalls, parse, build, history>>

(* The inputs: each code of a file of referral codes with its creator and    *)
(* the code the creator registered under.                                    *)
GraphFanout == 7
GraphExpanded == 4
GraphChainLength == 5

Created(code, creator, parent) == [code |-> code, creator |-> creator, parent |-> parent]

(* The root R has GraphFanout children, the last `expanded` of which have    *)
(* GRAPH_MAX_CHILDREN children each; with `shared`, one customer created the *)
(* first two children of R.                                                  *)
WideTree(expanded, shared) ==
    [i \in 1..GraphFanout |->
        Created("C" \o ToString(i),
                IF shared /\ i = 2 THEN "u1" ELSE "u" \o ToString(i), "R")]
    \o [n \in 1..(expanded * GRAPH_MAX_CHILDREN) |->
          LET i == GraphFanout - ((n - 1) \div GRAPH_MAX_CHILDREN)
              j == ((n - 1) % GRAPH_MAX_CHILDREN) + 1
          IN  Created("C" \o ToString(i) \o "_" \o ToString(j),
                      "u" \o ToString(i) \o "_" \o ToString(j),
                      "C" \o ToString(i))]

(* R -> D1 -> D2 -> ... *)
Chain(length) ==
    [i \in 1..length |->
        Created("D" \o ToString(i), "d" \o ToString(i),
                IF i = 1 THEN "R" ELSE "D" \o ToString(i - 1))]

(* R -> C1 -> R *)
Loop == << Created("C1", "u1", "R"), Created("R", "v1", "C1") >>

GraphFileInputs ==
    { WideTree(0, FALSE), WideTree(GraphExpanded, FALSE), WideTree(GraphExpanded, TRUE),
      Chain(GraphChainLength), Loop }

GraphRootInputs == {"R", "C" \o ToString(GraphFanout), "Z"}

(* The customers of the file: one per creator, in the order of the codes *)
CreatorsOf(created) ==
    LET first(i) == \A k \in 1..(i - 1) : created[k].creator # created[i].creator
        RECURSIVE from(_)
        from(i) ==
            IF i > Len(created) THEN <<>>
            ELSE IF first(i)
                 THEN <<MkCustomer(created[i].creator, "w:" \o created[i].creator,
                                   created[i].parent, Day(10), "")>> \o from(i + 1)
                 ELSE from(i + 1)
    IN  from(1)

MetasOf(created) ==
    [i \in 1..Len(created) |->
        [code |-> created[i].code, uses |-> 1, createdBy |-> created[i].creator]]

(* The customers file and the referral codes file have been ingested *)
GraphInit ==
    /\ \E created \in GraphFileInputs :
         /\ \E r \in {AddCustomers(createAnalyticsIndex([keepFullTx |-> FALSE,
                                                         maxStoredTxs |-> MaxStoredTxs]),
                                   <<>>, CreatorsOf(created))} :
               /\ index = AddReferralCodeMetas(r.index, MetasOf(created))
               /\ heap = r.heap
         /\ customerCalls = CountCustomers(NoCustomerCalls, CreatorsOf(created))
    /\ restored = None
    /\ last = [kind |-> "addReferralCodeMeta"]
    /\ dropped = <<>>
    /\ attributed = <<>>
    /\ nOps = 0
    /\ nQueries = 0
    /\ analysis = IdleAnalysis
    /\ parse = IdleParse
    /\ build = IdleBuild
    /\ history = NoHistory
    /\ graph = IdleGraph

OpenGraphPage == \E rootCode \in GraphRootInputs : OpenGraph(rootCode)

GraphStep == GraphShift \/ GraphChild \/ GraphReturn

GraphNext == OpenGraphPage \/ GraphShift \/ GraphChild \/ GraphReturn

SpecGraph == GraphInit /\ [][GraphNext]_vars

ReferralNodes == {i \in 1..Len(graph.nodes) : graph.nodes[i].type = "referral"}

(* No more than GRAPH_MAX_NODES nodes *)
GraphNodeCap == Len(graph.nodes) <= GRAPH_MAX_NODES

(* No code deeper than GRAPH_MAX_DEPTH levels below the root, and no code    *)
(* at that depth expanded                                                    *)
GraphDepthCap ==
    /\ \A i \in ReferralNodes : graph.nodes[i].level <= 2 * GRAPH_MAX_DEPTH
    /\ \A i \in 1..Len(graph.expanded) : graph.expanded[i].depth < GRAPH_MAX_DEPTH

(* No more than GRAPH_MAX_CHILDREN children laid out per code *)
GraphChildrenCap ==
    /\ \A i \in 1..Len(graph.expanded) : graph.expanded[i].children <= GRAPH_MAX_CHILDREN
    /\ \A i \in ReferralNodes :
          Cardinality({e \in 1..Len(graph.edges) :
                          graph.edges[e].from = graph.nodes[i].id}) <= GRAPH_MAX_CHILDREN

(* C30: propagation graph node cap.  For every root code and propagation     *)
(* map the graph of buildPropagationGraph has at most GRAPH_MAX_NODES nodes, *)
(* explores no code deeper than GRAPH_MAX_DEPTH levels below the root and    *)
(* expands at most GRAPH_MAX_CHILDREN children per code.                     *)
GraphWithinCaps == GraphNodeCap /\ GraphDepthCap /\ GraphChildrenCap

(* What the code keeps of C30: the depth and children caps, and a node count *)
(* that passes GRAPH_MAX_NODES by one at most                                *)
GraphCapsKept ==
    /\ GraphDepthCap
    /\ GraphChildrenCap
    /\ Len(graph.nodes) <= GRAPH_MAX_NODES + 1

(* C30, termination.  What is left of a call: the codes queued or not yet   *)
(* visited, each worth more than a full forEach, the children left in the    *)
(* forEach, and the return.                                                  *)
GraphMeasure ==
    LET codes == MapCodes(graph.map) \cup {graph.root}
    IN  (Len(graph.queue) + Cardinality(codes \ graph.visited)) * (GRAPH_MAX_CHILDREN + 2)
          + Len(graph.children)
          + (IF graph.phase = "done" THEN 0 ELSE 1)

(* Every step of a call lowers the measure, which is a natural number, and   *)
(* a call that has not returned has a step to take: the call returns.        *)
GraphTerminates ==
    /\ [](GraphMeasure >= 0)
    /\ [](graph.phase = "children" => graph.children # <<>>)
    /\ [][GraphStep => GraphMeasure' < GraphMeasure]_vars

(* The caps at work: a seventh child cut, a code at depth 3 left unexpanded, *)
(* the node cap reached exactly                                              *)
GraphCapsAtWork ==
    /\ graph.phase = "done"
    /\ Len(graph.nodes) = GRAPH_MAX_NODES
    /\ \E i \in 1..Len(graph.expanded) :
          /\ graph.expanded[i].children = GRAPH_MAX_CHILDREN
          /\ Len(MapGet(graph.map, graph.expanded[i].code, <<>>)) > GRAPH_MAX_CHILDREN

GraphDepthAtWork ==
    /\ graph.phase = "done"
    /\ \E i \in ReferralNodes :
          /\ graph.nodes[i].level = 2 * GRAPH_MAX_DEPTH
          /\ MapHas(graph.map, graph.nodes[i].id[2])

=============================================================================
